---------------------------- MODULE Spec2Model ----------------------------
(***************************************************************************)
(* Model of the workflow examples of mapbox/mcp-devkit-server:             *)
(*   - the LangGraph style workflow (examples/langgraph/style_workflow.py):*)
(*     analyze -> create -> validate -> {retry: create, finalize, END};    *)
(*   - the four MCP tool adapters (call_tool) of the langgraph and crewai  *)
(*     examples, as pure functions of the MCP result they receive;         *)
(*   - the LangGraph GeoJSON workflow (examples/langgraph/                 *)
(*     geojson_workflow.py): classify -> assess_quality -> analyze_* ->    *)
(*     visualize -> recommend -> report;                                   *)
(*   - the agent loop of the Gradio example (examples/gradio/app.py,       *)
(*     chat_with_agent): at most three inference rounds per user message;  *)
(*   - runs of the style workflow example sharing the module-level         *)
(*     mcp_client (connect, call_tool, disconnect).                        *)
(***************************************************************************)
EXTENDS Integers, Sequences, FiniteSets, TLC

VARIABLES
    state,      \* the StyleWorkflowState dict threaded through the nodes
    current,    \* the node the engine executes next, END, or RAISED
    log,        \* history: one entry per node execution
    toolError,  \* history: the node that ran last got an error-flagged tool result
    toolCalls,  \* history: the tool calls of the last node that made any
    adapter,    \* adapter run: which call_tool is applied
    mcpResult,  \* adapter run: what session.call_tool produced
    outcome,    \* adapter run: what call_tool did with it
    crew,       \* crewai create_style_tool: its call and what it returned
    gstate,     \* the GeoJSONWorkflowState dict threaded through the nodes
    gcurrent,   \* GeoJSON workflow: the node run next, END, RAISED or IDLE
    glog,       \* history: one entry per application of a node or the router
    chatPc,     \* chat_with_agent: where the request is
    history,    \* chat_with_agent: the history list of (user, assistant) pairs
    messages,   \* chat_with_agent: the messages list sent to the backend
    iterations, \* chat_with_agent: iterations of the agent loop begun so far
    response,   \* chat_with_agent: content of the latest inference response
    response_text,  \* chat_with_agent: the joined text of that response
    ui_resources,   \* chat_with_agent: UI resources extracted so far
    returned,   \* chat_with_agent: the tuple it returned
    toolRuns,   \* history: one entry per session.call_tool of the request
    mcp_client, \* the module-level MapboxMCPClient: session and _connection
    connections,    \* every stdio connection made: its transport and session
    runs,       \* concurrent runs: where each is, the connection it made
    toolLog     \* history: one entry per tool call of a concurrent run

vars == <<state, current, log, toolError, toolCalls, adapter, mcpResult, outcome, crew,
          gstate, gcurrent, glog,
          chatPc, history, messages, iterations, response, response_text,
          ui_resources, returned, toolRuns,
          mcp_client, connections, runs, toolLog>>

styleVars == <<state, current, log, toolError, toolCalls>>
adapterVars == <<adapter, mcpResult, outcome, crew>>
geoVars == <<gstate, gcurrent, glog>>
chatVars == <<chatPc, history, messages, iterations, response, response_text,
              ui_resources, returned, toolRuns>>

\* what the steps of one example leave alone: the other examples
concVars == <<mcp_client, connections, runs, toolLog>>
notStyle == <<adapterVars, geoVars, chatVars, concVars>>
notAdapter == <<styleVars, geoVars, chatVars, concVars>>
notGeo == <<styleVars, adapterVars, chatVars, concVars>>
notChat == <<styleVars, adapterVars, geoVars, concVars>>
notConc == <<styleVars, adapterVars, geoVars, chatVars>>

-----------------------------------------------------------------------------
(* Bounds of the model *)

\* longest content list of an MCP tool result
MaxParts == 2

\* node executions after which the model stops a run (never reached by the
\* workflow as written: it ends within 8)
MaxSteps == 12

-----------------------------------------------------------------------------
(* Python values *)

\* Python None, and the marker of a key a dict does not hold
NONE == "<None>"
MISSING == "<missing>"

\* bool(x) of a str | None
Truthy(x) == x \notin {NONE, ""}

\* A Python value returned by a call_tool: a dict (with the keys the nodes
\* read: id, styles, result, text), a list, or a str (held in .str).
Value == [type : {"dict", "list", "str"}, id : STRING, styles : STRING,
          result : STRING, text : STRING, str : STRING]

EmptyDict ==
    [type |-> "dict", id |-> MISSING, styles |-> MISSING, result |-> MISSING,
     text |-> MISSING, str |-> MISSING]

ListValue == [EmptyDict EXCEPT !.type = "list"]

StrValue(t) == [EmptyDict EXCEPT !.type = "str", !.str = t]

\* d.get(key, default); the caller checks d is a dict first (a list has no .get)
DictGet(d, key, default) == IF d[key] = MISSING THEN default ELSE d[key]

-----------------------------------------------------------------------------
(* Texts a tool can send *)

T_EMPTY == ""
T_BLANK == " "
T_PLAIN == "boom"
T_BLOCK == "~~~json {} ~~~"
T_BADBLOCK == "~~~json { ~~~"
T_ID == "{\"id\": \"style1\"}"
T_NOID == "{}"
T_STYLES == "{\"styles\": [\"s\"]}"
T_LIST == "[]"
T_URL == "Preview: https://api.mapbox.com/styles/v1/preview.html"
T_BAREURL == "https://api.mapbox.com"

Texts == {T_EMPTY, T_BLANK, T_PLAIN, T_BLOCK, T_BADBLOCK, T_ID, T_NOID,
          T_STYLES, T_LIST, T_URL, T_BAREURL}

\* text.strip()
Strip(t) ==
    CASE t = T_BLANK -> ""
      [] t = " dark-v11\n" -> "dark-v11"
      [] OTHER -> t

\* whether json.loads(t) succeeds
IsJson(t) == t \in {T_ID, T_NOID, T_STYLES, T_LIST}

\* json.loads(t), for a t with IsJson(t)
json_loads(t) ==
    CASE t = T_ID -> [EmptyDict EXCEPT !.id = "style1"]
      [] t = T_STYLES -> [EmptyDict EXCEPT !.styles = "[\"s\"]"]
      [] t = T_LIST -> ListValue
      [] OTHER -> EmptyDict

\* re.search for a fenced json code block in t (the fence is written ~~~
\* here): the group, or NONE
json_match(t) ==
    CASE t = T_BLOCK -> "{}"
      [] t = T_BADBLOCK -> "{"
      [] OTHER -> NONE

-----------------------------------------------------------------------------
(* MCP tool results *)

\* One content part: the isError attribute, whether it has a .text, the text.
Part == [isError : BOOLEAN, hasText : BOOLEAN, text : Texts]

\* The parts drawn: a part without .text carries none, and an error-flagged
\* part with a text carries the provider's message.
Parts ==
    {p \in Part : /\ ~p.hasText => p.text = T_EMPTY
                  /\ (p.isError /\ p.hasText) => p.text = T_PLAIN}

RECURSIVE SeqsUpTo(_, _)
SeqsUpTo(S, n) ==
    IF n = 0 THEN {<<>>}
    ELSE LET shorter == SeqsUpTo(S, n - 1)
         IN shorter \cup {Append(s, x) : s \in {t \in shorter : Len(t) = n - 1}, x \in S}

\* What awaiting self.session.call_tool(...) does: raises (transport failure)
\* or returns a result with a content list.
MCPResults ==
    {[transport |-> "fail", content |-> <<>>]}
    \cup {[transport |-> "ok", content |-> c] : c \in SeqsUpTo(Parts, MaxParts)}

\* any content part flagged as an error
HasErrorPart(r) ==
    r.transport = "ok" /\ \E i \in DOMAIN r.content : r.content[i].isError

\* What a call_tool does: raises exc, or returns val.
Raise(msg) == [kind |-> "raise", exc |-> msg, val |-> EmptyDict]
Return(v) == [kind |-> "return", exc |-> "", val |-> v]

TransportError == "connection closed"

\* getattr(item, "text", "Unknown error")
ErrorText(item) == IF item.hasText THEN item.text ELSE "Unknown error"

\* str(item) / str(result) of an object: an opaque repr
Repr == "<repr>"


-----------------------------------------------------------------------------
(* The tool adapters *)

\* "sep".join(parts)
RECURSIVE Join(_, _)
Join(parts, sep) ==
    IF Len(parts) = 0 THEN ""
    ELSE IF Len(parts) = 1 THEN parts[1]
    ELSE parts[1] \o sep \o Join(Tail(parts), sep)

\* langgraph/style_workflow.py, MapboxMCPClient.call_tool: only content[0] is
\* looked at; an empty list, an error-flagged first part and a blank text raise
\* ValueError, a transport failure propagates.
style_workflow_call_tool(tool_name, r) ==
    IF r.transport = "fail" THEN Raise(TransportError)
    ELSE IF Len(r.content) = 0
        THEN Raise("Tool " \o tool_name \o " returned empty content")
    ELSE LET content_item == r.content[1] IN
        IF content_item.isError
            THEN Raise("Tool " \o tool_name \o " failed: " \o ErrorText(content_item))
        ELSE IF content_item.hasText
            THEN IF content_item.text = "" \/ Strip(content_item.text) = ""
                    THEN Raise("Tool " \o tool_name \o " returned empty text")
                 ELSE IF IsJson(content_item.text)
                    THEN Return(json_loads(content_item.text))
                 ELSE Return([EmptyDict EXCEPT !.result = content_item.text])
        ELSE Return([EmptyDict EXCEPT !.result = Repr])

\* langgraph/geojson_workflow.py, MapboxMCPClient.call_tool: the text of
\* content[0], whatever its flags; str(content) for an empty list.
geojson_workflow_call_tool(tool_name, r) ==
    IF r.transport = "fail" THEN Raise(TransportError)
    ELSE IF Len(r.content) > 0
        THEN IF r.content[1].hasText
                THEN Return([EmptyDict EXCEPT !.text = r.content[1].text])
             ELSE Raise("AttributeError: text")
    ELSE Return([EmptyDict EXCEPT !.text = "[]"])

\* The text a crewai adapter returns from its except branch
ErrorReport(tool_name, msg) == "Error calling " \o tool_name \o ": " \o msg

\* item.text if the part has one, else str(item)
PartText(item) == IF item.hasText THEN item.text ELSE Repr

\* crewai/geojson_analysis_crew.py, MapboxMCPTools.call_tool: joins the text of
\* every part; only an exception becomes an error report.
geojson_analysis_crew_call_tool(tool_name, r) ==
    IF r.transport = "fail"
        THEN Return(StrValue(ErrorReport(tool_name, TransportError)))
    ELSE Return(StrValue(Join([i \in DOMAIN r.content |-> PartText(r.content[i])], "\n")))

\* crewai/style_designer_crew.py, MapboxMCPTools.call_tool: the first part
\* flagged isError, at any position, raises ValueError inside the try, so it
\* becomes an error report like a transport failure; no part gives "".
style_designer_crew_call_tool(tool_name, r) ==
    IF r.transport = "fail"
        THEN Return(StrValue(ErrorReport(tool_name, TransportError)))
    ELSE IF \E i \in DOMAIN r.content : r.content[i].isError
        THEN LET first == CHOOSE i \in DOMAIN r.content :
                            /\ r.content[i].isError
                            /\ \A j \in DOMAIN r.content : r.content[j].isError => i <= j
             IN Return(StrValue(ErrorReport(tool_name,
                    "Tool returned error: " \o ErrorText(r.content[first]))))
    ELSE IF Len(r.content) > 0
        THEN Return(StrValue(Join([i \in DOMAIN r.content |-> PartText(r.content[i])], "\n")))
    ELSE Return(StrValue(""))

Adapters == {"langgraph/style_workflow", "langgraph/geojson_workflow",
             "crewai/geojson_analysis_crew", "crewai/style_designer_crew"}

\* the call_tool of adapter a
call_tool(a, tool_name, r) ==
    CASE a = "langgraph/style_workflow" -> style_workflow_call_tool(tool_name, r)
      [] a = "langgraph/geojson_workflow" -> geojson_workflow_call_tool(tool_name, r)
      [] a = "crewai/geojson_analysis_crew" -> geojson_analysis_crew_call_tool(tool_name, r)
      [] a = "crewai/style_designer_crew" -> style_designer_crew_call_tool(tool_name, r)

-----------------------------------------------------------------------------
(* The style workflow: what its nodes receive *)

\* One tool invocation through the module-level mcp_client: whether the MCP
\* result held an error-flagged part, and what call_tool made of it.
ToolCalls(tool_name) ==
    {[flagged |-> HasErrorPart(r), out |-> style_workflow_call_tool(tool_name, r)] :
        r \in MCPResults}

list_styles_calls == ToolCalls("list_styles_tool")
style_builder_calls == ToolCalls("style_builder_tool")
create_style_calls == ToolCalls("create_style_tool")
retrieve_style_calls == ToolCalls("retrieve_style_tool")

\* What awaiting llm.ainvoke(messages) does: raises, or returns a response
\* whose content is one of contents.
LLMRaises == [raised |-> TRUE, content |-> ""]

LLMCalls(contents) == {LLMRaises} \cup {[raised |-> FALSE, content |-> c] : c \in contents}

AnalysisTexts == {"Recommend light-v11 with high contrast roads"}
BaseStyleTexts == {"mapbox/light-v11", " dark-v11\n", "I recommend mapbox/light-v11"}
VerdictTexts == {"PASS: meets the requirements", "FAIL: low contrast",
                 "Verdict: pass", "needs more work"}
DocTexts == {"Style overview"}

\* "PASS" in validation_text.upper()
UpperContainsPASS(t) == t \in {"PASS: meets the requirements", "Verdict: pass"}

\* What a node hands back to the engine: the state dict (mutated in place),
\* whether the node raised instead of returning, and, for the history only,
\* whether a tool invocation it made returned an error-flagged part.
\* For the history: the tool calls one node made. content: the llm content
\* the arguments come from; base_style: the argument of style_builder_tool;
\* tools: the tools invoked, in order; block: the json block found in the
\* builder's result text (NONE: no block, or no text); failed: the try block
\* around the calls ended in its except branch; styleId: the argument of
\* retrieve_style_tool; retrieved: the style data it returned, recorded when
\* the verdict on it is a pass.
NoValue == [EmptyDict EXCEPT !.type = "none"]

NoCalls ==
    [node |-> "", content |-> "", base_style |-> "", tools |-> <<>>,
     block |-> NONE, failed |-> FALSE, styleId |-> "",
     retrieved |-> NoValue]

\* What a node hands back to the engine: the state dict (mutated in place),
\* whether the node raised instead of returning, and, for the history only,
\* whether a tool invocation it made returned an error-flagged part and the
\* tool calls it made.
NodeResult(s, raised, gotError) ==
    [state |-> s, raised |-> raised, flagged |-> gotError, calls |-> NoCalls]

\* the same for a node that called tools
WithCalls(res, node, made) ==
    [res EXCEPT !.calls = [made EXCEPT !.node = node]]

-----------------------------------------------------------------------------
(* The style workflow: nodes *)

\* analyze_requirements_node: a failed list_styles_tool is swallowed
\* (existing_styles = []); the llm call is outside any try.
analyze_requirements_node(s, tc, llm) ==
    LET s1 == [s EXCEPT !.existing_styles =
                  IF tc.out.kind = "return" /\ tc.out.val.type = "dict"
                  THEN DictGet(tc.out.val, "styles", "[]") ELSE "[]"]
        made == [NoCalls EXCEPT !.tools = <<"list_styles_tool">>]
    IN IF llm.raised THEN WithCalls(NodeResult(s1, TRUE, tc.flagged), "analyze", made)
       ELSE WithCalls(NodeResult([s1 EXCEPT !.style_analysis = llm.content],
                                 FALSE, tc.flagged), "analyze", made)

\* base_style.replace("mapbox/", "")
RemoveMapbox(t) ==
    CASE t = "mapbox/light-v11" -> "light-v11"
      [] t = "I recommend mapbox/light-v11" -> "I recommend light-v11"
      [] OTHER -> t

\* valid_styles.values()
valid_styles ==
    {"streets-v12", "light-v11", "dark-v11", "outdoors-v12", "satellite-v9"}

\* base_style_clean without the fallback to streets-v12
base_style_clean_no_default(content) == RemoveMapbox(Strip(content))

\* the base_style argument create_style_node makes of the llm content
base_style_clean(content) ==
    LET base_style == Strip(content)
        clean == RemoveMapbox(base_style)
    IN IF clean \notin valid_styles THEN "streets-v12" ELSE clean

\* a create_style_try that hands the builder's text to create_style_tool
\* without looking for the json block
create_style_try_skips_parse(b, c) ==
    LET builder == <<"style_builder_tool">>
        both == <<"style_builder_tool", "create_style_tool">>
        Failed(msg, tools, text) ==
            [exc |-> msg, id |-> "", tools |-> tools, builder_text |-> text]
    IN IF b.out.kind = "raise" THEN Failed(b.out.exc, builder, NONE)
       ELSE IF b.out.val.type # "dict"
           THEN Failed("list object has no attribute get", builder, NONE)
       ELSE LET result_text == DictGet(b.out.val, "result", "")
            IN IF c.out.kind = "raise" THEN Failed(c.out.exc, both, result_text)
               ELSE IF c.out.val.type # "dict"
                   THEN Failed("list object has no attribute get", both, result_text)
               ELSE [exc |-> NONE, id |-> DictGet(c.out.val, "id", ""),
                     tools |-> both, builder_text |-> result_text]

\* The body of create_style_node's try block: the exception message it ends
\* with (NONE if it runs through), the id create_style_tool returned, and, for
\* the history, the tools it invoked and the text it searched the block in.
create_style_try(b, c) ==
    LET builder == <<"style_builder_tool">>
        both == <<"style_builder_tool", "create_style_tool">>
        Failed(msg, tools, text) ==
            [exc |-> msg, id |-> "", tools |-> tools, builder_text |-> text]
    IN IF b.out.kind = "raise" THEN Failed(b.out.exc, builder, NONE)
       ELSE IF b.out.val.type # "dict"
           THEN Failed("list object has no attribute get", builder, NONE)
       ELSE LET result_text == DictGet(b.out.val, "result", "")
                group == json_match(result_text)
            IN IF group = NONE
                   THEN Failed("Could not find style JSON in builder response",
                               builder, result_text)
               ELSE IF ~IsJson(group)
                   THEN Failed("Expecting property name enclosed in double quotes",
                               builder, result_text)
               ELSE IF c.out.kind = "raise" THEN Failed(c.out.exc, both, result_text)
               ELSE IF c.out.val.type # "dict"
                   THEN Failed("list object has no attribute get", both, result_text)
               ELSE [exc |-> NONE, id |-> DictGet(c.out.val, "id", ""),
                     tools |-> both, builder_text |-> result_text]

\* whether create_style_node got as far as calling create_style_tool
create_called(b) ==
    /\ b.out.kind = "return"
    /\ b.out.val.type = "dict"
    /\ json_match(DictGet(b.out.val, "result", "")) # NONE
    /\ IsJson(json_match(DictGet(b.out.val, "result", "")))

\* for the history: the tool calls of create_style_node
create_calls(llm, try) ==
    [NoCalls EXCEPT !.content = llm.content,
                    !.base_style = base_style_clean(llm.content),
                    !.tools = try.tools,
                    !.block = IF try.builder_text = NONE THEN NONE
                              ELSE json_match(try.builder_text),
                    !.failed = try.exc # NONE]

\* create_style_node without the write of iteration_count
create_style_node_no_increment(s, llm, b, c) ==
    LET try == create_style_try(b, c)
        gotError == b.flagged \/ (create_called(b) /\ c.flagged)
    IN IF llm.raised THEN NodeResult(s, TRUE, FALSE)
       ELSE WithCalls(
           IF try.exc = NONE
               THEN NodeResult([s EXCEPT !.created_style_id = try.id], FALSE, gotError)
           ELSE NodeResult([s EXCEPT !.error = "Failed to create style: " \o try.exc],
                           FALSE, gotError),
           "create", create_calls(llm, try))

\* create_style_node counting the attempt in the except branch too
create_style_node_counts_attempts(s, llm, b, c) ==
    LET iteration == s.iteration_count
        try == create_style_try(b, c)
        gotError == b.flagged \/ (create_called(b) /\ c.flagged)
    IN IF llm.raised THEN NodeResult(s, TRUE, FALSE)
       ELSE WithCalls(
           IF try.exc = NONE
               THEN NodeResult([s EXCEPT !.created_style_id = try.id,
                                         !.iteration_count = iteration + 1],
                               FALSE, gotError)
           ELSE NodeResult([s EXCEPT !.error = "Failed to create style: " \o try.exc,
                                     !.iteration_count = iteration + 1],
                           FALSE, gotError),
           "create", create_calls(llm, try))

\* create_style_node adding 2 to iteration_count for a style created
create_style_node_counts_double(s, llm, b, c) ==
    LET iteration == s.iteration_count
        try == create_style_try(b, c)
        gotError == b.flagged \/ (create_called(b) /\ c.flagged)
    IN IF llm.raised THEN NodeResult(s, TRUE, FALSE)
       ELSE WithCalls(
           IF try.exc = NONE
               THEN NodeResult([s EXCEPT !.created_style_id = try.id,
                                         !.iteration_count = iteration + 2],
                               FALSE, gotError)
           ELSE NodeResult([s EXCEPT !.error = "Failed to create style: " \o try.exc],
                           FALSE, gotError),
           "create", create_calls(llm, try))

\* create_style_node whose except branch also forgets the style created before
create_style_node_clears_id(s, llm, b, c) ==
    LET iteration == s.iteration_count
        try == create_style_try(b, c)
        gotError == b.flagged \/ (create_called(b) /\ c.flagged)
    IN IF llm.raised THEN NodeResult(s, TRUE, FALSE)
       ELSE WithCalls(
           IF try.exc = NONE
               THEN NodeResult([s EXCEPT !.created_style_id = try.id,
                                         !.iteration_count = iteration + 1],
                               FALSE, gotError)
           ELSE NodeResult([s EXCEPT !.error = "Failed to create style: " \o try.exc,
                                     !.created_style_id = ""],
                           FALSE, gotError),
           "create", create_calls(llm, try))

\* create_style_node: the llm call and the choice of base_style are outside
\* the try; inside it, the two tool calls, then created_style_id and
\* iteration_count + 1; any exception of the try sets error and nothing else.
create_style_node(s, llm, b, c) ==
    LET iteration == s.iteration_count
        try == create_style_try(b, c)
        gotError == b.flagged \/ (create_called(b) /\ c.flagged)
    IN IF llm.raised THEN NodeResult(s, TRUE, FALSE)
       ELSE WithCalls(
           IF try.exc = NONE
               THEN NodeResult([s EXCEPT !.created_style_id = try.id,
                                         !.iteration_count = iteration + 1],
                               FALSE, gotError)
           ELSE NodeResult([s EXCEPT !.error = "Failed to create style: " \o try.exc],
                           FALSE, gotError),
           "create", create_calls(llm, try))

\* for the history: the tool call of validate_style_node
validate_calls(s, tc, llm) ==
    [NoCalls EXCEPT !.tools = <<"retrieve_style_tool">>,
                    !.styleId = s.created_style_id,
                    !.failed = tc.out.kind = "raise",
                    !.retrieved =
                        IF /\ tc.out.kind = "return"
                           /\ ~llm.raised
                           /\ UpperContainsPASS(llm.content)
                        THEN tc.out.val ELSE NoValue]

\* validate_style_node starting the count afresh once a style has passed
validate_style_node_resets_count(s, tc, llm) ==
    IF ~Truthy(s.created_style_id)
        THEN NodeResult([s EXCEPT !.validation_passed = FALSE,
                                  !.validation_result = "No style created to validate"],
                        FALSE, FALSE)
    ELSE WithCalls(
         IF tc.out.kind = "raise"
        THEN NodeResult([s EXCEPT !.validation_passed = FALSE,
                                  !.validation_result = "Validation error: " \o tc.out.exc],
                        FALSE, tc.flagged)
    ELSE IF llm.raised
        THEN NodeResult([s EXCEPT !.validation_passed = FALSE,
                                  !.validation_result = "Validation error: llm"],
                        FALSE, tc.flagged)
    ELSE LET passed == UpperContainsPASS(llm.content)
             s1 == [s EXCEPT !.validation_result = llm.content,
                             !.validation_passed = passed]
         IN NodeResult(IF passed THEN [s1 EXCEPT !.final_style = tc.out.val,
                                                 !.iteration_count = 0]
                       ELSE s1,
                       FALSE, tc.flagged),
         "validate", validate_calls(s, tc, llm))

\* validate_style_node whose except branch records the exception in error
validate_style_node_records_error(s, tc, llm) ==
    IF ~Truthy(s.created_style_id)
        THEN NodeResult([s EXCEPT !.validation_passed = FALSE,
                                  !.validation_result = "No style created to validate"],
                        FALSE, FALSE)
    ELSE WithCalls(
         IF tc.out.kind = "raise"
        THEN NodeResult([s EXCEPT !.validation_passed = FALSE,
                                  !.validation_result = "Validation error: " \o tc.out.exc,
                                  !.error = "Validation error: " \o tc.out.exc],
                        FALSE, tc.flagged)
    ELSE IF llm.raised
        THEN NodeResult([s EXCEPT !.validation_passed = FALSE,
                                  !.validation_result = "Validation error: llm",
                                  !.error = "Validation error: llm"],
                        FALSE, tc.flagged)
    ELSE LET passed == UpperContainsPASS(llm.content)
             s1 == [s EXCEPT !.validation_result = llm.content,
                             !.validation_passed = passed]
         IN NodeResult(IF passed THEN [s1 EXCEPT !.final_style = tc.out.val] ELSE s1,
                       FALSE, tc.flagged),
         "validate", validate_calls(s, tc, llm))

\* validate_style_node keeping the retrieved style whatever the verdict
validate_style_node_keeps_failed_style(s, tc, llm) ==
    IF ~Truthy(s.created_style_id)
        THEN NodeResult([s EXCEPT !.validation_passed = FALSE,
                                  !.validation_result = "No style created to validate"],
                        FALSE, FALSE)
    ELSE WithCalls(
         IF tc.out.kind = "raise"
        THEN NodeResult([s EXCEPT !.validation_passed = FALSE,
                                  !.validation_result = "Validation error: " \o tc.out.exc],
                        FALSE, tc.flagged)
    ELSE IF llm.raised
        THEN NodeResult([s EXCEPT !.validation_passed = FALSE,
                                  !.validation_result = "Validation error: llm"],
                        FALSE, tc.flagged)
    ELSE LET passed == UpperContainsPASS(llm.content)
             s1 == [s EXCEPT !.validation_result = llm.content,
                             !.validation_passed = passed]
         IN NodeResult([s1 EXCEPT !.final_style = tc.out.val],
                       FALSE, tc.flagged),
         "validate", validate_calls(s, tc, llm))

\* validate_style_node: nothing to validate without a created_style_id;
\* otherwise retrieve_style_tool and the llm verdict, both inside the try, whose
\* except records a failed validation.
validate_style_node(s, tc, llm) ==
    IF ~Truthy(s.created_style_id)
        THEN NodeResult([s EXCEPT !.validation_passed = FALSE,
                                  !.validation_result = "No style created to validate"],
                        FALSE, FALSE)
    ELSE WithCalls(
         IF tc.out.kind = "raise"
        THEN NodeResult([s EXCEPT !.validation_passed = FALSE,
                                  !.validation_result = "Validation error: " \o tc.out.exc],
                        FALSE, tc.flagged)
    ELSE IF llm.raised
        THEN NodeResult([s EXCEPT !.validation_passed = FALSE,
                                  !.validation_result = "Validation error: llm"],
                        FALSE, tc.flagged)
    ELSE LET passed == UpperContainsPASS(llm.content)
             s1 == [s EXCEPT !.validation_result = llm.content,
                             !.validation_passed = passed]
         IN NodeResult(IF passed THEN [s1 EXCEPT !.final_style = tc.out.val] ELSE s1,
                       FALSE, tc.flagged),
         "validate", validate_calls(s, tc, llm))

\* finalize_style_node returning the state without the requirements
finalize_style_node_drops_requirements(s, llm) ==
    NodeResult([f \in DOMAIN s \ {"requirements"} |-> s[f]], llm.raised, FALSE)

\* finalize_style_node: prints the documentation; the state is returned as is.
finalize_style_node(s, llm) == NodeResult(s, llm.raised, FALSE)

\* the iteration limit of should_retry
MaxIterations == 3

\* should_retry without the iteration limit
should_retry_no_limit(s) ==
    IF Truthy(s.error) THEN "error"
    ELSE IF s.validation_passed THEN "finalize"
    ELSE "retry"

\* should_retry with the limit off by one
should_retry_off_by_one(s) ==
    IF Truthy(s.error) THEN "error"
    ELSE IF s.validation_passed THEN "finalize"
    ELSE IF s.iteration_count > MaxIterations THEN "finalize"
    ELSE "retry"

\* should_retry looking at the verdict before the error
should_retry_verdict_first(s) ==
    IF s.validation_passed THEN "finalize"
    ELSE IF Truthy(s.error) THEN "error"
    ELSE IF s.iteration_count >= MaxIterations THEN "finalize"
    ELSE "retry"

\* should_retry answering an error with a key of its own
should_retry_abort(s) ==
    IF Truthy(s.error) THEN "abort"
    ELSE IF s.validation_passed THEN "finalize"
    ELSE IF s.iteration_count >= MaxIterations THEN "finalize"
    ELSE "retry"

\* should_retry: the router after validate
should_retry(s) ==
    IF Truthy(s.error) THEN "error"
    ELSE IF s.validation_passed THEN "finalize"
    ELSE IF s.iteration_count >= MaxIterations THEN "finalize"
    ELSE "retry"

-----------------------------------------------------------------------------
(* The style workflow: graph and run *)

END == "__end__"
RAISED == "<raised>"

Nodes == {"analyze", "create", "validate", "finalize"}

\* create_workflow: entry point, direct edges, and the conditional edges
\* after validate
EntryPoint == "analyze"

DirectEdges == [analyze |-> "create", create |-> "validate", finalize |-> END]

RoutingTable == [retry |-> "create", finalize |-> "finalize", error |-> END]

\* the router decision taken after node on state s ("" after a direct edge)
Route(node, s) == IF node = "validate" THEN should_retry(s) ELSE ""

\* the node the compiled graph runs after node; a key the table does not map
\* ends the run with an exception
NextNode(node, s) ==
    IF node = "validate"
        THEN IF should_retry(s) \in DOMAIN RoutingTable
                THEN RoutingTable[should_retry(s)] ELSE RAISED
    ELSE DirectEdges[node]

\* the initial_state of example_delivery_app / example_running_app
Requirements == {"delivery app"}

initial_state(requirements) ==
    [requirements |-> requirements,
     existing_styles |-> "[]",
     style_analysis |-> "",
     created_style_id |-> "",
     validation_result |-> "",
     validation_passed |-> FALSE,
     iteration_count |-> 0,
     final_style |-> EmptyDict,
     error |-> NONE]

\* For the history: whether the node did what it is there for. create: the
\* try block ran through; validate: the verdict is a pass; else: it returned.
NodeOk(node, s, res) ==
    CASE node = "create" -> ~res.raised /\ res.state.error = s.error
      [] node = "validate" -> res.state.validation_passed
      [] OTHER -> ~res.raised

\* app.ainvoke runs one node: the state it returns replaces the state, the
\* edges give the next node; an exception of the node ends the run.
Execute(node, res) ==
    /\ current = node
    /\ Len(log) < MaxSteps
    /\ state' = res.state
    /\ current' = IF res.raised THEN RAISED ELSE NextNode(node, res.state)
    /\ log' = Append(log, [node |-> node, raised |-> res.raised,
                           route |-> IF res.raised THEN "" ELSE Route(node, res.state),
                           ok |-> NodeOk(node, state, res)])
    /\ toolError' = res.flagged
    /\ toolCalls' = IF res.calls = NoCalls THEN toolCalls ELSE res.calls
    /\ UNCHANGED notStyle

Analyze ==
    \E tc \in list_styles_calls, llm \in LLMCalls(AnalysisTexts) :
        Execute("analyze", analyze_requirements_node(state, tc, llm))

\* a call the node does not get to: what it would do is of no account
NotMade == [flagged |-> FALSE, out |-> Raise("not made")]

NoAnswer == [raised |-> FALSE, content |-> ""]

\* the builder is called once the llm has answered, create_style_tool once
\* the builder's block is parsed
Create ==
    \E llm \in LLMCalls(BaseStyleTexts) :
        \E b \in IF llm.raised THEN {NotMade} ELSE style_builder_calls :
            \E c \in IF ~llm.raised /\ create_called(b)
                      THEN create_style_calls ELSE {NotMade} :
                Execute("create", create_style_node(state, llm, b, c))

\* the style is retrieved when there is a created_style_id, the llm asked
\* once it is retrieved
Validate ==
    \E tc \in IF Truthy(state.created_style_id)
                THEN retrieve_style_calls ELSE {NotMade} :
        \E llm \in IF Truthy(state.created_style_id) /\ tc.out.kind = "return"
                    THEN LLMCalls(VerdictTexts) ELSE {NoAnswer} :
            Execute("validate", validate_style_node(state, tc, llm))

Finalize ==
    \E llm \in LLMCalls(DocTexts) :
        Execute("finalize", finalize_style_node(state, llm))

StyleInit ==
    /\ state \in {initial_state(r) : r \in Requirements}
    /\ current = EntryPoint
    /\ log = <<>>
    /\ toolError = FALSE
    /\ toolCalls = NoCalls

-----------------------------------------------------------------------------
(* The adapters applied to every MCP result *)

AdapterTool == "geojson_preview_tool"

NotCalled == [kind |-> "none", exc |-> "", val |-> EmptyDict]

\* the crewai tool create_style_tool is not in use
NoCrew ==
    [pc |-> "<idle>", output |-> "", tools |-> <<>>, builder_result |-> "",
     connected |-> TRUE]

AdapterInit ==
    /\ adapter \in Adapters
    /\ mcpResult \in MCPResults
    /\ outcome = NotCalled
    /\ crew = NoCrew

CallTool ==
    /\ outcome = NotCalled
    /\ outcome' = call_tool(adapter, AdapterTool, mcpResult)
    /\ UNCHANGED <<adapter, mcpResult, crew>>
    /\ UNCHANGED notAdapter

-----------------------------------------------------------------------------
(* The CrewAI create path: create_style_tool of style_designer_crew.py *)

\* What one run_async_tool can meet: connect fails before the try of
\* call_tool (the exception reaches run_async_tool), or the session answers
\* with one result; results of at most one part are drawn, so that the text
\* handed on is one of Texts or an error report.
BridgeCalls ==
    {[connected |-> FALSE, result |-> [transport |-> "fail", content |-> <<>>]]}
    \cup {[connected |-> TRUE, result |-> r] :
            r \in {m \in MCPResults : Len(m.content) <= 1}}

\* what connect() raises: the server build is missing, or the transport or
\* the session does not start
ConnectError == "Server not found"

\* mcp_tools.call_tool(tool_name, arguments): connect() runs before the try,
\* so what it raises leaves call_tool; everything after it is inside the try.
mcp_tools_call_tool(tool_name, call) ==
    IF ~call.connected THEN Raise(ConnectError)
    ELSE style_designer_crew_call_tool(tool_name, call.result)

run_async_tool_propagates(tool_name, call) ==
    LET result == mcp_tools_call_tool(tool_name, call)
    IN IF result.kind = "raise" THEN RAISED ELSE result.val.str

\* run_async_tool: the str call_tool returned, or the report of whatever was
\* raised around it.
run_async_tool(tool_name, call) ==
    LET result == mcp_tools_call_tool(tool_name, call)
    IN IF result.kind = "raise" THEN "Tool execution error: " \o result.exc
       ELSE result.val.str

\* create_style_tool of the crew: the builder's answer, the json block in it,
\* then the remote create_style_tool; output: the str it returns; tools: the
\* remote tools it invoked.
create_style_tool(b, c) ==
    LET builder_result == run_async_tool("style_builder_tool", b)
        json_group == json_match(builder_result)
        Returned(output, tools) ==
            [pc |-> "returned", output |-> output, tools |-> tools,
             builder_result |-> builder_result, connected |-> TRUE]
    IN IF json_group = NONE
           THEN Returned("Error: Could not parse style JSON from builder response. "
                            \o "Response was:\n" \o builder_result,
                         <<"style_builder_tool">>)
       ELSE IF ~IsJson(json_group)
           THEN Returned("Error creating style: Expecting property name enclosed in "
                            \o "double quotes\n\nBuilder result was:\n" \o builder_result,
                         <<"style_builder_tool">>)
       ELSE Returned(run_async_tool("create_style_tool", c),
                     <<"style_builder_tool", "create_style_tool">>)

\* the agent is about to use the tool
CrewInit ==
    /\ adapter = "crewai/style_designer_crew"
    /\ mcpResult = [transport |-> "fail", content |-> <<>>]
    /\ outcome = NotCalled
    /\ crew = [NoCrew EXCEPT !.pc = "called"]

CrewCreateStyle ==
    /\ crew.pc = "called"
    /\ \E b \in BridgeCalls, c \in BridgeCalls : crew' = create_style_tool(b, c)
    /\ UNCHANGED <<adapter, mcpResult, outcome>>
    /\ UNCHANGED notAdapter

\* run_async_tool alone, on any result of the session and with a connect()
\* that succeeds or fails
BridgeInit ==
    /\ adapter = "crewai/style_designer_crew"
    /\ mcpResult \in MCPResults
    /\ outcome = NotCalled
    /\ crew \in {[NoCrew EXCEPT !.pc = "bridge", !.connected = c] : c \in BOOLEAN}

RunAsyncTool ==
    /\ crew.pc = "bridge"
    /\ crew' = [crew EXCEPT
                  !.pc = "returned",
                  !.tools = <<AdapterTool>>,
                  !.output = run_async_tool(AdapterTool,
                                 [connected |-> crew.connected, result |-> mcpResult])]
    /\ UNCHANGED <<adapter, mcpResult, outcome>>
    /\ UNCHANGED notAdapter

-----------------------------------------------------------------------------
(* The GeoJSON workflow: datasets *)

\* most features of a dataset drawn
MaxFeatures == 2

GeometryTypes == {"Point", "MultiPoint", "LineString", "MultiLineString",
                  "Polygon", "MultiPolygon", "GeometryCollection"}

\* One feature, by what the nodes read of it.  type: the geometry's "type",
\* MISSING when the feature has no geometry or the geometry no type, NONE when
\* the geometry is null.  coordinates: a [lng, lat] pair in range ("lnglat"),
\* a pair of numbers out of range, a list of two positions ("pairs"), or
\* anything that is not a list of length 2 ("malformed").  properties: a
\* non-empty dict, or an empty or absent one.
Feature == [type : GeometryTypes \cup {MISSING, NONE},
            coordinates : {"lnglat", "out_of_range", "pairs", "malformed"},
            properties : {"filled", "empty"}]

\* The features drawn: the coordinates vary with a Point, a MultiPoint holds
\* two positions, the rest is malformed as a point.
Features ==
    {f \in Feature :
        CASE f.type = "Point" -> f.coordinates # "pairs"
          [] f.type = "MultiPoint" -> f.coordinates = "pairs" /\ f.properties = "filled"
          [] OTHER -> f.coordinates = "malformed" /\ f.properties = "filled"}

\* data.get("features", []) of the datasets drawn
Datasets == SeqsUpTo(Features, MaxFeatures)

\* the initial_state of run_workflow_example
geo_initial_state(data) ==
    [geojson_data |-> data,
     data_type |-> NONE,
     feature_count |-> 0,
     quality_score |-> <<0, 1>>,
     issues |-> <<>>,
     analysis |-> "",
     visualization_url |-> "",
     recommendations |-> <<>>,
     report |-> ""]

\* What a node hands back to the engine: the state dict (mutated in place)
\* and whether the node raised instead of returning.
GeoResult(s, raised) == [state |-> s, raised |-> raised]

-----------------------------------------------------------------------------
(* The GeoJSON workflow: nodes *)

\* feature.get("geometry", {}).get("type", "")
geom_type(feature) == IF feature.type = MISSING THEN "" ELSE feature.type

\* the loop of classify_data_node: geometry_types.add(geom_type) per feature
RECURSIVE geometry_types_of(_)
geometry_types_of(features) ==
    IF Len(features) = 0 THEN {}
    ELSE geometry_types_of(SubSeq(features, 1, Len(features) - 1))
            \cup {geom_type(features[Len(features)])}

\* the if/elif chain of classify_data_node over the set of geometry types
classification(geometry_types) ==
    IF Cardinality(geometry_types) > 1 THEN "mixed"
    ELSE IF "Point" \in geometry_types \/ "MultiPoint" \in geometry_types THEN "points"
    ELSE IF "LineString" \in geometry_types \/ "MultiLineString" \in geometry_types
        THEN "lines"
    ELSE IF "Polygon" \in geometry_types \/ "MultiPolygon" \in geometry_types
        THEN "polygons"
    ELSE "mixed"

\* classify_data_node reading only the first feature
classify_data_node_first_feature(s) ==
    LET features == s.geojson_data
        s1 == [s EXCEPT !.feature_count = Len(features)]
    IN IF \E i \in DOMAIN features : features[i].type = NONE
          THEN GeoResult(s1, TRUE)
       ELSE GeoResult([s1 EXCEPT !.data_type =
                IF Len(features) = 0 THEN "mixed"
                ELSE classification({geom_type(features[1])})], FALSE)

\* classify_data_node: feature_count, then data_type; None.get raises
\* AttributeError on a feature whose geometry is null.
classify_data_node(s) ==
    LET features == s.geojson_data
        s1 == [s EXCEPT !.feature_count = Len(features)]
    IN IF \E i \in DOMAIN features : features[i].type = NONE
          THEN GeoResult(s1, TRUE)
       ELSE GeoResult([s1 EXCEPT !.data_type =
                classification(geometry_types_of(features))], FALSE)

\* the coordinate check of feature i (0-based) in assess_quality_node: the
\* issue it appends, or "" when the check passes
coordinate_issue(s, i, feature) ==
    LET n == ToString(i) IN
    IF s.data_type = "points"
        THEN CASE feature.coordinates = "lnglat" -> ""
               [] feature.coordinates = "out_of_range" ->
                    "Feature " \o n \o ": Invalid coordinates"
               [] feature.coordinates = "pairs" ->
                    "Feature " \o n \o ": Error checking coordinates"
               [] OTHER -> "Feature " \o n \o ": Malformed coordinates"
    ELSE ""

\* assess_quality_node: one check for a non-empty dataset, one per feature,
\* one for the properties; quality_score is passed_checks / total_checks,
\* kept as the pair.  The read of the coordinates is outside the try, so a
\* null geometry raises.
assess_quality_node(s) ==
    LET features == s.geojson_data
        found == [i \in DOMAIN features |-> coordinate_issue(s, i - 1, features[i])]
        IsIssue(x) == x # ""
        has_properties == \A i \in DOMAIN features : features[i].properties = "filled"
        issues == (IF Len(features) > 0 THEN <<>> ELSE <<"No features in dataset">>)
                  \o SelectSeq(found, IsIssue)
                  \o (IF has_properties THEN <<>>
                      ELSE <<"Some features have missing or empty properties">>)
        total_checks == Len(features) + 2
        passed_checks == total_checks - Len(issues)
    IN IF \E i \in DOMAIN features : features[i].type = NONE
          THEN GeoResult(s, TRUE)
       ELSE GeoResult([s EXCEPT !.quality_score = <<passed_checks, total_checks>>,
                                !.issues = issues], FALSE)

GeoAnalysisTexts == {"Clustered around the old town"}

\* analyze_points_node, analyze_lines_node, analyze_polygons_node and
\* analyze_mixed_node differ in the prompt only: the llm call is outside any
\* try, its content becomes the analysis.
analyze_node(s, llm) ==
    IF llm.raised THEN GeoResult(s, TRUE)
    ELSE GeoResult([s EXCEPT !.analysis = llm.content], FALSE)

\* what mcp_client.call_tool("geojson_preview_tool", ...) can do, and whether
\* the tool call failed: the session raised, or the result reports an error
geojson_preview_calls ==
    {[failed |-> r.transport = "fail" \/ HasErrorPart(r),
      out |-> geojson_workflow_call_tool("geojson_preview_tool", r)] : r \in MCPResults}

\* re.search for the api.mapbox.com url in result_text: the match, or NONE
url_match(t) ==
    IF t = T_URL THEN "https://api.mapbox.com/styles/v1/preview.html" ELSE NONE

\* create_visualization_node: every exception of the tool call is caught and
\* written to visualization_url.
create_visualization_node(s, tc) ==
    IF tc.out.kind = "raise"
        THEN GeoResult([s EXCEPT !.visualization_url = "Error: " \o tc.out.exc], FALSE)
    ELSE LET result_text == DictGet(tc.out.val, "text", "") IN
        IF result_text \in {T_URL, T_BAREURL} /\ url_match(result_text) # NONE
            THEN GeoResult([s EXCEPT !.visualization_url = url_match(result_text)], FALSE)
        ELSE GeoResult([s EXCEPT !.visualization_url = "Visualization created"], FALSE)

\* the contents the llm answers the recommendation prompt with
R_LIST == "Here is what to do:\n1. Add properties\n  - Use clustering\n   "
R_PROSE == "Nothing to recommend"

RecommendationTexts == {R_LIST, R_PROSE}

\* content.split('\n')
SplitLines(content) ==
    IF content = R_LIST
        THEN <<"Here is what to do:", "1. Add properties", "  - Use clustering", "   ">>
    ELSE <<content>>

\* line.strip()
LineStrip(line) ==
    CASE line = "  - Use clustering" -> "- Use clustering"
      [] line = "   " -> ""
      [] OTHER -> line

\* line.strip() and (line.strip()[0].isdigit() or line.strip().startswith('-'))
IsRecommendation(line) ==
    LineStrip(line) \in {"1. Add properties", "- Use clustering"}

\* generate_recommendations_node: the llm call is outside any try; the
\* numbered and dashed lines of its content, stripped.
generate_recommendations_node(s, llm) ==
    IF llm.raised THEN GeoResult(s, TRUE)
    ELSE LET kept == SelectSeq(SplitLines(llm.content), IsRecommendation)
         IN GeoResult([s EXCEPT !.recommendations =
                          [i \in DOMAIN kept |-> LineStrip(kept[i])]], FALSE)

\* generate_report_node: the report text, from the fields it formats (at most
\* five issues)
generate_report_node(s) ==
    LET shown == SubSeq(s.issues, 1, IF Len(s.issues) < 5 THEN Len(s.issues) ELSE 5)
    IN GeoResult([s EXCEPT !.report =
            "# GeoJSON Analysis Report\n"
            \o "Data Type: " \o (IF s.data_type = NONE THEN "None" ELSE s.data_type)
            \o "\nFeature Count: " \o ToString(s.feature_count)
            \o "\nQuality Score: " \o ToString(s.quality_score[1]) \o "/"
                                   \o ToString(s.quality_score[2])
            \o (IF Len(s.issues) > 0 THEN "\nIssues Found:\n" \o Join(shown, "\n")
                ELSE "\nNo significant issues detected")
            \o "\nAnalysis\n" \o s.analysis
            \o "\nRecommendations\n" \o Join(s.recommendations, "\n")
            \o "\nVisualization\n" \o s.visualization_url], FALSE)

\* route_by_data_type without the default of routing.get
route_by_data_type_no_default(s) ==
    LET data_type == DictGet(s, "data_type", "mixed")
    IN IF data_type \in {"points", "lines", "polygons", "mixed"}
       THEN "analyze_" \o data_type ELSE data_type

\* route_by_data_type answering analyze_mixed whatever the data_type
route_by_data_type_always_mixed(s) == "analyze_mixed"

\* route_by_data_type: the router after assess_quality
route_by_data_type(s) ==
    LET data_type == DictGet(s, "data_type", "mixed")
        routing == [points |-> "analyze_points", lines |-> "analyze_lines",
                    polygons |-> "analyze_polygons", mixed |-> "analyze_mixed"]
    IN IF data_type \in DOMAIN routing THEN routing[data_type] ELSE "analyze_mixed"

-----------------------------------------------------------------------------
(* The GeoJSON workflow: graph and run *)

IDLE == "<idle>"

\* where a run is while a node awaits a call that does not complete
AWAITING == "<awaiting>"

GeoAnalyzeNodes == {"analyze_points", "analyze_lines", "analyze_polygons",
                    "analyze_mixed"}

GeoNodes == {"classify", "assess_quality", "visualize", "recommend", "report"}
            \cup GeoAnalyzeNodes

\* create_workflow: entry point, direct edges, and the conditional edges
\* after assess_quality
GeoEntryPoint == "classify"

GeoDirectEdges ==
    [classify |-> "assess_quality",
     analyze_points |-> "visualize", analyze_lines |-> "visualize",
     analyze_polygons |-> "visualize", analyze_mixed |-> "visualize",
     visualize |-> "recommend", recommend |-> "report", report |-> END]

GeoRoutingTable ==
    [analyze_points |-> "analyze_points", analyze_lines |-> "analyze_lines",
     analyze_polygons |-> "analyze_polygons", analyze_mixed |-> "analyze_mixed"]

\* the router decision taken after node on state s ("" after a direct edge)
GeoRoute(node, s) == IF node = "assess_quality" THEN route_by_data_type(s) ELSE ""

\* the node the compiled graph runs after node; a key the table does not map
\* ends the run with an exception
GeoNextNode(node, s) ==
    IF node = "assess_quality"
        THEN IF route_by_data_type(s) \in DOMAIN GeoRoutingTable
                THEN GeoRoutingTable[route_by_data_type(s)] ELSE RAISED
    ELSE GeoDirectEdges[node]

\* One history entry: the node (or function) applied, whether it raised, the
\* router decision after it, the data_type it left, and the features it read.
GeoEntry(node, res, route, read) ==
    [node |-> node, raised |-> res.raised, route |-> route,
     data_type |-> res.state.data_type, input |-> read, failed |-> FALSE]

\* app.ainvoke runs one node; failed: a tool call of the node failed
GeoExecuteTool(node, res, failed) ==
    /\ gcurrent = node
    /\ gstate' = res.state
    /\ gcurrent' = IF res.raised THEN RAISED ELSE GeoNextNode(node, res.state)
    /\ glog' = Append(glog, [GeoEntry(node, res,
                        IF res.raised THEN "" ELSE GeoRoute(node, res.state), <<>>)
                                EXCEPT !.failed = failed])
    /\ UNCHANGED notGeo

GeoExecute(node, res) == GeoExecuteTool(node, res, FALSE)

Classify == GeoExecute("classify", classify_data_node(gstate))

AssessQuality == GeoExecute("assess_quality", assess_quality_node(gstate))

AnalyzeData ==
    \E node \in GeoAnalyzeNodes, llm \in LLMCalls(GeoAnalysisTexts) :
        GeoExecute(node, analyze_node(gstate, llm))

Visualize ==
    \E tc \in geojson_preview_calls :
        GeoExecuteTool("visualize", create_visualization_node(gstate, tc), tc.failed)

Recommend ==
    \E llm \in LLMCalls(RecommendationTexts) :
        GeoExecute("recommend", generate_recommendations_node(gstate, llm))

Report == GeoExecute("report", generate_report_node(gstate))

GeoInit ==
    /\ gstate \in {geo_initial_state(data) : data \in Datasets}
    /\ gcurrent = GeoEntryPoint
    /\ glog = <<>>

\* no GeoJSON workflow is run
GeoIdle ==
    /\ gstate = geo_initial_state(<<>>)
    /\ gcurrent = IDLE
    /\ glog = <<>>

\* no style workflow is run
StyleIdle ==
    /\ state \in {initial_state(r) : r \in Requirements}
    /\ current = IDLE
    /\ log = <<>>
    /\ toolError = FALSE
    /\ toolCalls = NoCalls

\* no adapter is applied
AdapterIdle ==
    /\ adapter = "langgraph/style_workflow"
    /\ mcpResult = [transport |-> "fail", content |-> <<>>]
    /\ outcome = NotCalled
    /\ crew = NoCrew

-----------------------------------------------------------------------------
(* The classifier and the router applied to any state *)

\* applications of the two functions to one state
MaxApplications == 2

FUNCTIONS == "<functions>"

\* what the data_type field can hold when the router is called: a label of
\* classify_data_node, None, no field at all, a label the router does not know
DataTypeInputs == {"points", "lines", "polygons", "mixed", NONE, MISSING, "raster"}

\* the orders the features of a dataset can be listed in
Reorderings(features) ==
    IF Len(features) = 0 THEN {<<>>}
    ELSE {[i \in DOMAIN features |-> features[p[i]]] :
            p \in Permutations(DOMAIN features)}

FunctionInit ==
    /\ gstate \in {[geo_initial_state(data) EXCEPT !.data_type = t] :
                        data \in Datasets, t \in DataTypeInputs}
    /\ gcurrent = FUNCTIONS
    /\ glog = <<>>

\* route_by_data_type(state)
ApplyRouter ==
    /\ gcurrent = FUNCTIONS
    /\ Len(glog) < MaxApplications
    /\ glog' = Append(glog, GeoEntry("route_by_data_type", GeoResult(gstate, FALSE),
                                     route_by_data_type(gstate), gstate.geojson_data))
    /\ UNCHANGED <<gstate, gcurrent, notGeo>>

\* classify_data_node(state) and then route_by_data_type(state), on the
\* dataset with its features in any order
ApplyClassify ==
    /\ gcurrent = FUNCTIONS
    /\ Len(glog) < MaxApplications
    /\ \E features \in Reorderings(gstate.geojson_data) :
        LET res == classify_data_node([gstate EXCEPT !.geojson_data = features])
        IN /\ gstate' = res.state
           /\ glog' = Append(glog, GeoEntry("classify", res,
                                IF res.raised THEN "" ELSE route_by_data_type(res.state),
                                features))
    /\ UNCHANGED <<gcurrent, notGeo>>

-----------------------------------------------------------------------------
(* The Gradio agent loop: what the backend and the tools send *)

\* the iterations of the agent loop: for iteration in range(3)
MaxRounds == 3

\* One content block of a message.  A str content is held as the one text
\* block it abbreviates; the content of a tool_result is a list of text dicts
\* (a str content, again, as one of them).
Block(type, text, id, name, tool_use_id, content, is_error) ==
    [type |-> type, text |-> text, id |-> id, name |-> name,
     tool_use_id |-> tool_use_id, content |-> content, is_error |-> is_error]

TextBlock(text) == Block("text", text, "", "", "", <<>>, FALSE)
ToolUseBlock(id, name) == Block("tool_use", "", id, name, "", <<>>, FALSE)
ToolResultBlock(tool_use_id, content, is_error) ==
    Block("tool_result", "", "", "", tool_use_id, content, is_error)

TextDict(text) == [type |-> "text", text |-> text]

B_TEXT == TextBlock("Here is your map")
B_MORE == TextBlock("Let me check")
B_USE1 == ToolUseBlock("toolu_1", "geojson_preview_tool")
B_USE2 == ToolUseBlock("toolu_2", "list_styles_tool")
B_USE3 == ToolUseBlock("toolu_3", "style_builder_tool")

\* response.content of the inference responses drawn; the name of a tool_use
\* block is what the backend wrote, a tool it was offered or not
Responses == {<<>>, <<B_TEXT>>, <<B_MORE, B_TEXT>>, <<B_USE1>>, <<B_MORE, B_USE1>>,
              <<B_USE1, B_USE2>>, <<B_USE2, B_MORE, B_USE1>>, <<B_USE3>>}

\* tools_result.tools, by name: what session.list_tools() answers
tools_result == <<"list_styles_tool", "create_style_tool", "style_builder_tool",
                  "geojson_preview_tool", "preview_style_tool">>

\* any(excluded in tool.name for excluded in ["style_builder",
\* "mapbox_style_builder"])
NameExcluded(name) == name \in {"style_builder_tool", "mapbox_style_builder_tool"}

\* the tools offered to the backend
filtered_tools(tools) == SelectSeq(tools, LAMBDA name : ~NameExcluded(name))

\* What client.messages.create(...) does: raises, or returns a response.
BackendCalls ==
    {[raised |-> TRUE, content |-> <<>>]}
    \cup {[raised |-> FALSE, content |-> c] : c \in Responses}

\* One content item of an MCP tool result, by the attributes the loop reads.
Item(type, text, has_resource, uri, resource_text) ==
    [type |-> type, text |-> text, has_resource |-> has_resource, uri |-> uri,
     resource_text |-> resource_text]

I_TEXT == Item("text", "3 styles found", FALSE, "", "")
I_UI == Item("resource", "", TRUE, "ui://mapbox/preview/1",
             "https://api.mapbox.com/preview/1")

\* What awaiting session.call_tool(name, input) does in the loop: raises, or
\* returns a result with a content list.
SessionCalls ==
    {[raised |-> TRUE, exc |-> TransportError, content |-> <<>>],
     [raised |-> FALSE, exc |-> "", content |-> <<I_TEXT>>],
     [raised |-> FALSE, exc |-> "", content |-> <<I_TEXT, I_UI>>]}

\* more content items, for extract_ui_resources applied on its own: a
\* ui://mapbox/ resource without text, resources with another uri or with
\* none, an item of type resource without a resource, an image
I_UI_NOTEXT == Item("resource", "", TRUE, "ui://mapbox/preview/2", "")
I_UI_OTHER == Item("resource", "", TRUE, "ui://other/preview/3",
                   "https://example.com/preview/3")
I_HTTPS == Item("resource", "", TRUE, "https://api.mapbox.com/styles/4", "{}")
I_NOURI == Item("resource", "", TRUE, "", "https://api.mapbox.com/preview/5")
I_NORESOURCE == Item("resource", "", FALSE, "", "")
I_IMAGE == Item("image", "", FALSE, "", "")

ContentItems == {I_TEXT, I_UI, I_UI_NOTEXT, I_UI_OTHER, I_HTTPS, I_NOURI,
                 I_NORESOURCE, I_IMAGE}

\* longest content list drawn for extract_ui_resources
MaxItems == 2

\* uri_str.startswith('ui://mapbox/')
IsMapboxUI(uri) == uri \in {"ui://mapbox/preview/1", "ui://mapbox/preview/2"}

IsUIResource(item) ==
    item.type = "resource" /\ item.has_resource /\ IsMapboxUI(item.uri)

\* entries that keep the resource uri even when the resource has a text
extract_ui_resources_keeps_uri(content) ==
    LET found == SelectSeq(content, IsUIResource)
    IN [i \in DOMAIN found |->
            [type |-> "ui-resource", uri |-> found[i].uri, title |-> "Map Preview"]]

\* extract_ui_resources: one entry per ui://mapbox/ resource item, in order;
\* its uri is the resource text when there is one
extract_ui_resources(content) ==
    LET found == SelectSeq(content, IsUIResource)
    IN [i \in DOMAIN found |->
            [type |-> "ui-resource",
             uri |-> IF found[i].resource_text # "" THEN found[i].resource_text
                     ELSE found[i].uri,
             title |-> "Map Preview"]]

\* the conversion of result.content to text dicts
content_for_anthropic(content) ==
    [i \in DOMAIN content |->
        TextDict(CASE content[i].type = "text" -> content[i].text
                   [] content[i].type = "resource" ->
                        "Resource: " \o (IF content[i].has_resource THEN content[i].uri
                                         ELSE "unknown")
                   [] OTHER -> Repr)]

-----------------------------------------------------------------------------
(* The Gradio agent loop: chat_with_agent *)

\* the body of the loop over tool_uses dropping the result of a failed call
tool_result_for_drops_failure(tool_use, call) ==
    IF call.raised THEN <<>>
    ELSE <<ToolResultBlock(tool_use.id,
                IF Len(content_for_anthropic(call.content)) > 0
                    THEN content_for_anthropic(call.content)
                ELSE <<TextDict(Repr)>>, FALSE)>>

\* the body of the loop over tool_uses: what it appends to tool_results for
\* one tool_use block, given what session.call_tool did
tool_result_for(tool_use, call) ==
    IF call.raised
        THEN <<ToolResultBlock(tool_use.id, <<TextDict("Error: " \o call.exc)>>, TRUE)>>
    ELSE <<ToolResultBlock(tool_use.id,
                IF Len(content_for_anthropic(call.content)) > 0
                    THEN content_for_anthropic(call.content)
                ELSE <<TextDict(Repr)>>, FALSE)>>

\* the loop over tool_uses: tool_results after the calls
RECURSIVE tool_results_of(_, _)
tool_results_of(tool_uses, calls) ==
    IF Len(tool_uses) = 0 THEN <<>>
    ELSE LET n == Len(tool_uses) IN
         tool_results_of(SubSeq(tool_uses, 1, n - 1), SubSeq(calls, 1, n - 1))
            \o tool_result_for(tool_uses[n], calls[n])

\* the loop over tool_uses: what it adds to ui_resources
RECURSIVE extracted_of(_)
extracted_of(calls) ==
    IF Len(calls) = 0 THEN <<>>
    ELSE LET n == Len(calls) IN
         extracted_of(SubSeq(calls, 1, n - 1))
            \o (IF calls[n].raised THEN <<>> ELSE extract_ui_resources(calls[n].content))

IsTextBlock(block) == block.type = "text"
IsToolUseBlock(block) == block.type = "tool_use"

\* the iframe_html built from ui_resources
iframe_html_of(resources) ==
    Join([i \in DOMAIN resources |-> "<iframe src=" \o resources[i].uri \o ">"], "")

UserMessage == "Show my delivery zones"

\* the history lists the UI passes in
Histories == {<<>>, << <<"hello", "Hi, how can I help?">> >>}

ChatMessage(role, content) == [role |-> role, content |-> content]

\* the messages built from history and message before the loop
RECURSIVE initial_messages(_)
initial_messages(h) ==
    IF Len(h) = 0 THEN <<ChatMessage("user", <<TextBlock(UserMessage)>>)>>
    ELSE <<ChatMessage("user", <<TextBlock(h[1][1])>>),
           ChatMessage("assistant", <<TextBlock(h[1][2])>>)>>
         \o initial_messages(Tail(h))

NotReturned == [response_text |-> "", history |-> <<>>, iframe_html |-> ""]

ChatInit ==
    /\ chatPc = "loop"
    /\ history \in Histories
    /\ messages = initial_messages(history)
    /\ iterations = 0
    /\ response = <<>>
    /\ response_text = ""
    /\ ui_resources = <<>>
    /\ returned = NotReturned
    /\ toolRuns = <<>>

\* extract_ui_resources applied to a content list on its own: response holds
\* the list, ui_resources what is returned
ExtractInit ==
    /\ chatPc = "extract"
    /\ history = <<>>
    /\ messages = <<>>
    /\ iterations = 0
    /\ response \in SeqsUpTo(ContentItems, MaxItems)
    /\ response_text = ""
    /\ ui_resources = <<>>
    /\ returned = NotReturned
    /\ toolRuns = <<>>

ExtractUIResources ==
    /\ chatPc = "extract"
    /\ chatPc' = "extracted"
    /\ ui_resources' = extract_ui_resources(response)
    /\ UNCHANGED <<history, messages, iterations, response, response_text, returned,
                   toolRuns>>
    /\ UNCHANGED notChat

\* no chat request is processed
ChatIdle ==
    /\ chatPc = IDLE
    /\ history = <<>>
    /\ messages = <<>>
    /\ iterations = 0
    /\ response = <<>>
    /\ response_text = ""
    /\ ui_resources = <<>>
    /\ returned = NotReturned
    /\ toolRuns = <<>>

\* a round that appends the tool results without the assistant response
round_messages_results_only(content, tool_results) ==
    <<ChatMessage("user", tool_results)>>

\* what a round with tool use appends to messages: the assistant response,
\* then the tool results as a user message
round_messages(content, tool_results) ==
    <<ChatMessage("assistant", content), ChatMessage("user", tool_results)>>

\* the agent loop running five iterations
loop_control_five_rounds(begun, tool_uses) ==
    IF Len(tool_uses) = 0 THEN "after_loop"
    ELSE IF begun < MaxRounds + 2 THEN "loop"
    ELSE "after_loop"

\* Where the request is after the iteration begun as number begun: the break
\* on a response without tool_use, else the next iteration while range(3)
\* has one.
loop_control(begun, tool_uses) ==
    IF Len(tool_uses) = 0 THEN "after_loop"
    ELSE IF begun < MaxRounds THEN "loop"
    ELSE "after_loop"

\* One iteration of the agent loop: the inference call (an exception of it
\* leaves chat_with_agent), the text and tool_use blocks of the response, the
\* break when there is no tool_use, else every tool call and the two messages
\* appended.  iterations counts the iterations begun.
InferenceRound ==
    /\ chatPc = "loop"
    /\ iterations' = iterations + 1
    /\ \E call \in BackendCalls :
        IF call.raised
            THEN /\ chatPc' = RAISED
                 /\ UNCHANGED <<history, messages, response, response_text,
                                ui_resources, returned, toolRuns>>
        ELSE LET text_parts == SelectSeq(call.content, IsTextBlock)
                 tool_uses == SelectSeq(call.content, IsToolUseBlock)
             IN /\ response' = call.content
                /\ response_text' = Join([i \in DOMAIN text_parts |-> text_parts[i].text], "\n")
                /\ chatPc' = loop_control(iterations + 1, tool_uses)
                /\ IF Len(tool_uses) = 0
                     THEN UNCHANGED <<messages, ui_resources, toolRuns>>
                   ELSE \E calls \in [DOMAIN tool_uses -> SessionCalls] :
                          /\ messages' = messages \o
                                round_messages(call.content,
                                               tool_results_of(tool_uses, calls))
                          /\ ui_resources' = ui_resources \o extracted_of(calls)
                          /\ toolRuns' = toolRuns \o
                                [i \in DOMAIN tool_uses |->
                                    [round |-> iterations + 1, id |-> tool_uses[i].id,
                                     name |-> tool_uses[i].name, raised |-> calls[i].raised]]
                /\ UNCHANGED <<history, returned>>
    /\ UNCHANGED notChat

\* After the loop: the iframe html, history.append, and the return.
ChatReturn ==
    /\ chatPc = "after_loop"
    /\ history' = Append(history, <<UserMessage, response_text>>)
    /\ returned' = [response_text |-> response_text,
                    history |-> Append(history, <<UserMessage, response_text>>),
                    iframe_html |-> iframe_html_of(ui_resources)]
    /\ chatPc' = "returned"
    /\ UNCHANGED <<messages, iterations, response, response_text, ui_resources, toolRuns>>
    /\ UNCHANGED notChat

-----------------------------------------------------------------------------
(* Concurrent runs on the module-level mcp_client *)

\* runs of example_delivery_app in flight in one process
NumRuns == 2

\* tool calls the nodes of one run make
MaxToolCalls == 1

Runs == 1 .. NumRuns

\* MapboxMCPClient.__init__: session and _connection are None (held as 0; a
\* connection made by connect is numbered from 1)
NewClient == [session |-> 0, connection |-> 0]

NewRun == [pc |-> "start", own |-> 0, calls |-> 0]

ConcInit ==
    /\ mcp_client = NewClient
    /\ connections = <<>>
    /\ runs = [r \in Runs |-> NewRun]
    /\ toolLog = <<>>

\* no run uses the client
ConcIdle ==
    /\ mcp_client = NewClient
    /\ connections = <<>>
    /\ runs = [r \in Runs |-> [NewRun EXCEPT !.pc = IDLE]]
    /\ toolLog = <<>>

\* connect, up to the await that opens the stdio transport: _connection is
\* assigned, the streams are the run's own.
ConnectTransport(r) ==
    /\ runs[r].pc = "start"
    /\ LET c == Len(connections) + 1 IN
        /\ connections' = Append(connections, [transport |-> "open", session |-> "none"])
        /\ mcp_client' = [mcp_client EXCEPT !.connection = c]
        /\ runs' = [runs EXCEPT ![r].pc = "connecting", ![r].own = c]
    /\ UNCHANGED toolLog
    /\ UNCHANGED notConc

\* connect, the rest: session is assigned a ClientSession over the streams
\* just opened, entered and initialized.
ConnectSession(r) ==
    /\ runs[r].pc = "connecting"
    /\ connections' = [connections EXCEPT ![runs[r].own].session = "open"]
    /\ mcp_client' = [mcp_client EXCEPT !.session = runs[r].own]
    /\ runs' = [runs EXCEPT ![r].pc = "running"]
    /\ UNCHANGED toolLog
    /\ UNCHANGED notConc

\* A node of run r calls mcp_client.call_tool: the request goes to whatever
\* self.session is (connect is called first only when it is None).
RunToolCall(r) ==
    /\ runs[r].pc = "running"
    /\ runs[r].calls < MaxToolCalls
    /\ mcp_client.session # 0
    /\ toolLog' = Append(toolLog,
            [run |-> r, own |-> runs[r].own, session |-> mcp_client.session,
             open |-> connections[mcp_client.session].session = "open"])
    /\ runs' = [runs EXCEPT ![r].calls = @ + 1]
    /\ UNCHANGED <<mcp_client, connections>>
    /\ UNCHANGED notConc

\* disconnect(): the session self.session names is exited, then the transport
\* self._connection names; neither attribute is assigned.
disconnect(client, conns) ==
    [c \in DOMAIN conns |->
        [transport |-> IF c = client.connection THEN "closed" ELSE conns[c].transport,
         session |-> IF c = client.session THEN "closed" ELSE conns[c].session]]

\* The finally of run r: disconnect closes whatever self.session and
\* self._connection are, and leaves both attributes as they are.
Disconnect(r) ==
    /\ runs[r].pc = "running"
    /\ connections' = disconnect(mcp_client, connections)
    /\ runs' = [runs EXCEPT ![r].pc = "done"]
    /\ UNCHANGED <<mcp_client, toolLog>>
    /\ UNCHANGED notConc

-----------------------------------------------------------------------------
(* The session lifecycle of one client, runs one after the other *)

\* main() awaits one example runner after the other: run r moves only while
\* no other run is in flight
InFlight(r) == runs[r].pc \in {"connecting", "running", "raised"}

Sequential(r) == \A q \in Runs \ {r} : ~InFlight(q)

\* connect, the rest, failing: session is assigned the new ClientSession, then
\* entering or initializing it raises; the exception leaves connect() and the
\* runner, whose try starts after the call of connect().
SessionStartFails(r) ==
    /\ runs[r].pc = "connecting"
    /\ mcp_client' = [mcp_client EXCEPT !.session = runs[r].own]
    /\ runs' = [runs EXCEPT ![r].pc = "failed"]
    /\ UNCHANGED <<connections, toolLog>>
    /\ UNCHANGED notConc

\* app.ainvoke raises inside the try of the runner
WorkflowRaises(r) ==
    /\ runs[r].pc = "running"
    /\ runs' = [runs EXCEPT ![r].pc = "raised"]
    /\ UNCHANGED <<mcp_client, connections, toolLog>>
    /\ UNCHANGED notConc

\* the finally of the runner on the way out of an exception
FinallyDisconnect(r) ==
    /\ runs[r].pc = "raised"
    /\ connections' = disconnect(mcp_client, connections)
    /\ runs' = [runs EXCEPT ![r].pc = "failed"]
    /\ UNCHANGED <<mcp_client, toolLog>>
    /\ UNCHANGED notConc

\* mcp_client.call_tool after the runner of r has disconnected: connect() is
\* awaited first when self.session is None, and the request goes to
\* self.session.
CallToolAfterDisconnect(r) ==
    /\ runs[r].pc = "done"
    /\ LET fresh == Len(connections) + 1
           lazy == mcp_client.session = 0
           session == IF lazy THEN fresh ELSE mcp_client.session
       IN /\ connections' =
                IF lazy THEN Append(connections, [transport |-> "open", session |-> "open"])
                ELSE connections
          /\ mcp_client' =
                IF lazy THEN [session |-> fresh, connection |-> fresh] ELSE mcp_client
          /\ toolLog' = Append(toolLog,
                [run |-> r, own |-> runs[r].own, session |-> session,
                 open |-> connections'[session].session = "open"])
    /\ runs' = [runs EXCEPT ![r].pc = "reused"]
    /\ UNCHANGED notConc

-----------------------------------------------------------------------------
(* Specifications *)

\* the style workflow, with the adapter part idle
Init == StyleInit /\ AdapterIdle /\ GeoIdle /\ ChatIdle /\ ConcIdle

Next == Analyze \/ Create \/ Validate \/ Finalize

Spec == Init /\ [][Next]_vars

\* the engine runs the next node as long as there is one
FairSpec == Spec /\ WF_vars(Next)

\* the adapters, with the workflow idle
AdapterSpecInit == AdapterInit /\ StyleInit /\ GeoIdle /\ ChatIdle /\ ConcIdle

AdapterNext == CallTool

AdapterSpec == AdapterSpecInit /\ [][AdapterNext]_vars

\* the GeoJSON workflow, with the rest idle
GeoSpecInit == GeoInit /\ StyleIdle /\ AdapterIdle /\ ChatIdle /\ ConcIdle

GeoNext == Classify \/ AssessQuality \/ AnalyzeData \/ Visualize \/ Recommend \/ Report

GeoSpec == GeoSpecInit /\ [][GeoNext]_vars

\* the classifier and the router of the GeoJSON workflow on any state
FunctionSpecInit == FunctionInit /\ StyleIdle /\ AdapterIdle /\ ChatIdle /\ ConcIdle

FunctionNext == ApplyRouter \/ ApplyClassify

FunctionSpec == FunctionSpecInit /\ [][FunctionNext]_vars

\* one chat request of the Gradio example
ChatSpecInit == ChatInit /\ StyleIdle /\ AdapterIdle /\ GeoIdle /\ ConcIdle

ChatNext == InferenceRound \/ ChatReturn

ChatSpec == ChatSpecInit /\ [][ChatNext]_vars

\* a node of the style workflow that awaits a tool call on state s
AwaitsTool(node, s) ==
    \/ node \in {"analyze", "create"}
    \/ node = "validate" /\ Truthy(s.created_style_id)

\* The session.call_tool awaited by call_tool never completes: the await has
\* no timeout, so the node stays where it is.
StyleHang ==
    /\ current \in Nodes
    /\ AwaitsTool(current, state)
    /\ Len(log) < MaxSteps
    /\ current' = AWAITING
    /\ UNCHANGED <<state, log, toolError, toolCalls>>
    /\ UNCHANGED notStyle

\* The same in create_visualization_node, the node of the GeoJSON workflow
\* that calls a tool.
GeoHang ==
    /\ gcurrent = "visualize"
    /\ gcurrent' = AWAITING
    /\ UNCHANGED <<gstate, glog>>
    /\ UNCHANGED notGeo

\* runs of the style workflow example on the shared client
ConcSpecInit == ConcInit /\ StyleIdle /\ AdapterIdle /\ GeoIdle /\ ChatIdle

ConcNext ==
    \E r \in Runs :
        ConnectTransport(r) \/ ConnectSession(r) \/ RunToolCall(r) \/ Disconnect(r)

ConcSpec == ConcSpecInit /\ [][ConcNext]_vars

\* either workflow
WorkflowsInit == Init \/ GeoSpecInit

WorkflowsNext == Next \/ GeoNext

WorkflowsSpec == WorkflowsInit /\ [][WorkflowsNext]_vars

\* the two create paths: the create node of the LangGraph style workflow and
\* the create_style_tool of the CrewAI style designer
CrewSpecInit == CrewInit /\ StyleIdle /\ GeoIdle /\ ChatIdle /\ ConcIdle

CreatePathsInit == Init \/ CrewSpecInit

CreatePathsNext == Next \/ CrewCreateStyle

CreatePathsSpec == CreatePathsInit /\ [][CreatePathsNext]_vars

\* the example runners one after the other on the shared client
LifecycleNext ==
    \E r \in Runs :
        /\ Sequential(r)
        /\ \/ ConnectTransport(r)
           \/ ConnectSession(r)
           \/ SessionStartFails(r)
           \/ RunToolCall(r)
           \/ WorkflowRaises(r)
           \/ Disconnect(r)
           \/ FinallyDisconnect(r)
           \/ CallToolAfterDisconnect(r)

LifecycleSpec == ConcSpecInit /\ [][LifecycleNext]_vars

\* extract_ui_resources on its own
ExtractSpecInit == ExtractInit /\ StyleIdle /\ AdapterIdle /\ GeoIdle /\ ConcIdle

ExtractNext == ExtractUIResources

ExtractSpec == ExtractSpecInit /\ [][ExtractNext]_vars

\* the tool bridge of the crew on its own
BridgeSpecInit == BridgeInit /\ StyleIdle /\ GeoIdle /\ ChatIdle /\ ConcIdle

BridgeNext == RunAsyncTool

BridgeSpec == BridgeSpecInit /\ [][BridgeNext]_vars

\* either workflow, with tool calls that may never complete
HangNext == WorkflowsNext \/ StyleHang \/ GeoHang

HangSpec == WorkflowsInit /\ [][HangNext]_vars

-----------------------------------------------------------------------------
(* History of a run *)

\* how many times node n has been executed
Visits(n) == Cardinality({i \in DOMAIN log : log[i].node = n})

\* the entry of the node that ran last (the log is not empty)
Last == log[Len(log)]

IsCreate(e) == e.node = "create"
IsValidate(e) == e.node = "validate"

\* the router decisions taken so far, in order
Routes ==
    LET v == SelectSeq(log, IsValidate) IN [i \in DOMAIN v |-> v[i].route]

\* the verdicts of the validate executions so far, in order
Verdicts ==
    LET v == SelectSeq(log, IsValidate) IN [i \in DOMAIN v |-> v[i].ok]

NoNodeRaised == \A i \in DOMAIN log : ~log[i].raised

EveryCreateSucceeded == \A i \in DOMAIN log : IsCreate(log[i]) => log[i].ok

\* how many create executions ran their try block through
SuccessfulCreates == Cardinality({i \in DOMAIN log : IsCreate(log[i]) /\ log[i].ok})

-----------------------------------------------------------------------------
(* Claims about the style workflow *)

\* C1: with the engine running the next node as long as there is one, a run
\* in which no node raises reaches END, and at no point has create or
\* validate been executed more than 3 times.
C1_StyleWorkflowTerminates ==
    /\ [](Visits("create") <= 3 /\ Visits("validate") <= 3)
    /\ ([](current # RAISED) => <>(current = END))

\* a run that ended after three create and three validate executions
C1_Witness ==
    current = END /\ NoNodeRaised /\ Visits("create") = 3 /\ Visits("validate") = 3

\* C2: a finished run in which every create succeeded and no validation
\* passed took the decisions retry, retry, finalize, executed create exactly 3
\* times and finalize exactly once, and ends with iteration_count = 3 and
\* validation_passed false; and should_retry has never just answered retry
\* with iteration_count >= 3.
C2_ForcedFinalize ==
    /\ (/\ current = END
        /\ NoNodeRaised
        /\ EveryCreateSucceeded
        /\ \A i \in DOMAIN Verdicts : ~Verdicts[i])
       => (/\ Routes = <<"retry", "retry", "finalize">>
           /\ Visits("create") = 3
           /\ Visits("finalize") = 1
           /\ state.iteration_count = 3
           /\ ~state.validation_passed)
    /\ (Len(log) > 0 /\ Last.route = "retry") => state.iteration_count < 3

\* a finished run of three successful creates whose validations all failed
C2_Witness ==
    /\ current = END
    /\ NoNodeRaised
    /\ EveryCreateSucceeded
    /\ Verdicts = <<FALSE, FALSE, FALSE>>
    /\ Visits("finalize") = 1

\* C3: a finished run in which every create succeeded and the validations
\* went fail, fail, pass ends with iteration_count = 3 and validation_passed
\* true, after exactly 3 executions of create.
C3_RetryScenario ==
    (/\ current = END
     /\ NoNodeRaised
     /\ EveryCreateSucceeded
     /\ Verdicts = <<FALSE, FALSE, TRUE>>)
    => (/\ state.iteration_count = 3
        /\ state.validation_passed
        /\ Visits("create") = 3)

\* a finished run whose third validation passed after two failures
C3_Witness ==
    /\ current = END
    /\ NoNodeRaised
    /\ EveryCreateSucceeded
    /\ Verdicts = <<FALSE, FALSE, TRUE>>
    /\ Visits("finalize") = 1

\* C5: iteration_count starts at 0 and every node execution leaves it
\* unchanged or increases it by exactly 1.
C5_IterationCountMonotone ==
    /\ state.iteration_count = 0
    /\ [][state'.iteration_count \in {state.iteration_count, state.iteration_count + 1}]_vars

\* validate has just run on a state whose iteration_count create raised to 2
C5_Witness ==
    Len(log) > 0 /\ Last.node = "validate" /\ state.iteration_count = 2

\* C6 as claimed: iteration_count equals the number of executions of create
\* that returned, whether the style was created or the attempt failed.
C6_CountsEveryCreate ==
    NoNodeRaised => state.iteration_count = Visits("create")

\* C6 as amended: iteration_count equals the number of executions of create
\* whose try block ran through (the style was created); an execution that
\* failed left it unchanged and set error.
C6_CountsSuccessfulCreates ==
    /\ state.iteration_count = SuccessfulCreates
    /\ (Len(log) > 0 /\ IsCreate(Last) /\ ~Last.raised /\ ~Last.ok) => Truthy(state.error)

\* a create attempt has failed after an earlier one succeeded
C6_Witness ==
    /\ Len(log) > 0 /\ IsCreate(Last) /\ ~Last.raised /\ ~Last.ok
    /\ Visits("create") = 2
    /\ state.iteration_count = 1

\* C7: when should_retry has just been evaluated on a state whose error is
\* set, it answered error, the run is at END and finalize was never executed;
\* and no node execution changes an error that is set.
C7_AbortOnError ==
    /\ []((Len(log) > 0 /\ IsValidate(Last) /\ Truthy(state.error))
            => (Last.route = "error" /\ current = END /\ Visits("finalize") = 0))
    /\ [][Truthy(state.error) => state'.error = state.error]_vars

\* a run ended by the router on an error recorded by the second create, with
\* the style of the first one validated as a pass
C7_Witness ==
    /\ current = END
    /\ Len(log) > 0 /\ IsValidate(Last) /\ Last.ok
    /\ Truthy(state.error)
    /\ Visits("create") = 2

\* C8: when the node that ran last got an error-flagged content part from
\* a tool and returned, error is set, and if that node is validate the router
\* answered error and the run is at END.
C8_ToolErrorRecorded ==
    (toolError /\ Len(log) > 0 /\ ~Last.raised)
    => (/\ Truthy(state.error)
        /\ IsValidate(Last) => (Last.route = "error" /\ current = END))

-----------------------------------------------------------------------------
(* Claims about the tool adapters *)

\* the messages of the exceptions a crewai call_tool catches
CaughtMessages ==
    {TransportError} \cup {"Tool returned error: " \o t : t \in Texts \cup {"Unknown error"}}

\* what an adapter does on a transport failure of session.call_tool
TransportOutcome(a) == call_tool(a, AdapterTool, [transport |-> "fail", content |-> <<>>])

\* out is a failure of the kind adapter a answers a transport failure with: an
\* exception where that one propagates, an error report where it is caught
FailsLikeTransport(a, out) ==
    IF TransportOutcome(a).kind = "raise" THEN out.kind = "raise"
    ELSE /\ out.kind = "return"
         /\ out.val.type = "str"
         /\ \E m \in CaughtMessages : out.val.str = ErrorReport(AdapterTool, m)

\* C9: in every adapter, a result with an error-flagged part at any
\* position fails like a transport failure.
C9_ErrorPartIsFailure ==
    (outcome # NotCalled /\ HasErrorPart(mcpResult))
    => FailsLikeTransport(adapter, outcome)

\* C10: in every adapter, a successful result with an empty content list is
\* a failure, never a returned value.
C10_EmptyContentIsAnomaly ==
    (outcome # NotCalled /\ mcpResult.transport = "ok" /\ Len(mcpResult.content) = 0)
    => FailsLikeTransport(adapter, outcome)


-----------------------------------------------------------------------------
(* Claims about the routers and the classifier *)

\* the applications of the router alone recorded so far
IsRouterCall(e) == e.node = "route_by_data_type"
IsClassifyCall(e) == e.node = "classify"

\* C11: route_by_data_type is total: on points, lines, polygons and mixed it
\* returns the analyze_ key of that label, and on any other data_type (None,
\* no field, an unknown label) it returns analyze_mixed; it never raises.
C11_RouterTotal ==
    \A i \in DOMAIN glog :
        IsRouterCall(glog[i]) =>
            /\ ~glog[i].raised
            /\ glog[i].route =
                  CASE glog[i].data_type = "points" -> "analyze_points"
                    [] glog[i].data_type = "lines" -> "analyze_lines"
                    [] glog[i].data_type = "polygons" -> "analyze_polygons"
                    [] OTHER -> "analyze_mixed"

\* the router was applied to a state without the field and sent it to
\* analyze_mixed
C11_Witness ==
    /\ Len(glog) > 0
    /\ IsRouterCall(glog[1])
    /\ glog[1].data_type = MISSING
    /\ glog[1].route = "analyze_mixed"

\* C12: the routing tables are total: retry, finalize and error are keys of
\* the table after validate, every decision a run takes after validate or
\* after assess_quality is a key of that node's table, and in no reachable
\* state does a router return a key its table lacks.
C12_RoutingTablesTotal ==
    /\ {"retry", "finalize", "error"} \subseteq DOMAIN RoutingTable
    /\ should_retry(state) \in DOMAIN RoutingTable
    /\ route_by_data_type(gstate) \in DOMAIN GeoRoutingTable
    /\ \A i \in DOMAIN log :
          (IsValidate(log[i]) /\ ~log[i].raised) => log[i].route \in DOMAIN RoutingTable
    /\ \A i \in DOMAIN glog :
          (glog[i].node = "assess_quality" /\ ~glog[i].raised)
              => glog[i].route \in DOMAIN GeoRoutingTable

\* a style run that was sent back to create and then ended on an error
C12_Witness ==
    /\ current = END
    /\ Last.route = "error"
    /\ \E i \in DOMAIN log : log[i].route = "retry"

\* C13: classification is deterministic: classify_data_node followed by
\* route_by_data_type, applied again to the same dataset with its features
\* listed in any order, gives the same data_type and the same routing key
\* (and fails alike on a dataset it cannot read).
C13_ClassificationDeterministic ==
    \A i, j \in DOMAIN glog :
        (IsClassifyCall(glog[i]) /\ IsClassifyCall(glog[j])) =>
            /\ glog[i].raised = glog[j].raised
            /\ glog[i].data_type = glog[j].data_type
            /\ glog[i].route = glog[j].route

\* the classifier ran twice on two features of different geometry types, in
\* the two orders
C13_Witness ==
    /\ Len(glog) = 2
    /\ IsClassifyCall(glog[1]) /\ IsClassifyCall(glog[2])
    /\ Len(glog[1].input) = 2
    /\ glog[1].input[1].type # glog[2].input[1].type
    /\ glog[2].data_type = "mixed" /\ glog[2].route = "analyze_mixed"

-----------------------------------------------------------------------------
(* Claims about the state of the two workflows *)

\* C14: no node of either workflow removes a field: after every node
\* execution, and in the final state, the state holds every field of the
\* initial state, the fields no node writes included.
C14_NoFieldRemoved ==
    /\ DOMAIN state = {"requirements", "existing_styles", "style_analysis",
                       "created_style_id", "validation_result", "validation_passed",
                       "iteration_count", "final_style", "error"}
    /\ DOMAIN gstate = {"geojson_data", "data_type", "feature_count", "quality_score",
                        "issues", "analysis", "visualization_url", "recommendations",
                        "report"}
    /\ state.requirements \in Requirements
    /\ gstate.geojson_data \in Datasets

\* a style run that went through finalize to END
C14_Witness ==
    /\ current = END
    /\ Visits("finalize") = 1
    /\ NoNodeRaised
    /\ state.validation_passed

\* C15: a failed validation never aborts the run: an execution of validate
\* returns, leaves error as it was, and when it leaves validation_passed
\* false with error unset the router decides retry or finalize, so create or
\* finalize runs next.
C15_FailedValidationNeverAborts ==
    [][current = "validate" =>
          /\ current' # RAISED
          /\ state'.error = state.error
          /\ (~state'.validation_passed /\ ~Truthy(state.error)) =>
                /\ log'[Len(log')].route \in {"retry", "finalize"}
                /\ current' \in {"create", "finalize"}]_vars

\* validate caught an exception of the llm call and the run went back to create
C15_Witness ==
    /\ Len(log) > 0
    /\ IsValidate(Last)
    /\ state.validation_result = "Validation error: llm"
    /\ ~state.validation_passed
    /\ Last.route = "retry"
    /\ current = "create"

-----------------------------------------------------------------------------
(* Claims about the agent loop of the Gradio example *)

\* the latest inference response asks for a tool
RequestsTools == \E i \in DOMAIN response : response[i].type = "tool_use"

\* the loop is over: the request is about to return or has returned
LoopOver == chatPc \in {"after_loop", "returned"}

\* C16: chat_with_agent calls the reasoning backend at most 3 times per user
\* message and its loop is over after at most 3 rounds, whatever the backend
\* keeps requesting; the loop is over before the third round exactly when a
\* response holds no tool_use block.
C16_AtMostThreeRounds ==
    /\ iterations <= 3
    /\ chatPc = "loop" => iterations < 3
    /\ (chatPc = "loop" /\ iterations > 0) => RequestsTools
    /\ (LoopOver /\ iterations < 3) => ~RequestsTools
    /\ (LoopOver /\ RequestsTools) => iterations = 3

\* the request returned after three rounds that all asked for tools
C16_Witness ==
    /\ chatPc = "returned"
    /\ iterations = 3
    /\ RequestsTools
    /\ Len(toolRuns) >= 5

\* the text of the text blocks of a response, joined as the loop joins them
TextOf(content) ==
    LET text_parts == SelectSeq(content, IsTextBlock)
    IN Join([i \in DOMAIN text_parts |-> text_parts[i].text], "\n")

\* the request returned after a third round that still asked for tools
CeilingHit == chatPc = "returned" /\ iterations = 3 /\ RequestsTools

\* C17: when the third inference round still requests tool invocations, the
\* request returns the text produced so far together with a recorded anomaly:
\* something in what it returns, beyond the text of the last response, tells
\* the caller that the ceiling was hit.
C17_CeilingAnomalyRecorded ==
    CeilingHit =>
        \/ returned.response_text # TextOf(response)
        \/ returned.history[Len(returned.history)][2] # TextOf(response)
        \/ returned.iframe_html # iframe_html_of(ui_resources)

\* the ids of the tool_use blocks of a content list, in order
ToolUseIds(content) ==
    LET tool_uses == SelectSeq(content, IsToolUseBlock)
    IN [i \in DOMAIN tool_uses |-> tool_uses[i].id]

\* a content list made of tool_result blocks only
OnlyToolResults(content) == \A i \in DOMAIN content : content[i].type = "tool_result"

\* C18: tool results are correlated: every assistant message in messages
\* that holds tool_use blocks is followed by a user message holding exactly
\* one tool_result per tool_use block, in the same order and with that
\* block's id, whether the tool call returned or raised; and every response
\* with tool_use blocks is appended so.
C18_ToolResultCorrelation ==
    /\ \A i \in DOMAIN messages :
          (messages[i].role = "assistant" /\ ToolUseIds(messages[i].content) # <<>>) =>
              /\ i + 1 \in DOMAIN messages
              /\ messages[i + 1].role = "user"
              /\ OnlyToolResults(messages[i + 1].content)
              /\ [j \in DOMAIN messages[i + 1].content |->
                        messages[i + 1].content[j].tool_use_id]
                    = ToolUseIds(messages[i].content)
    /\ (RequestsTools /\ chatPc # IDLE) =>
          /\ Len(messages) >= 2
          /\ messages[Len(messages) - 1] = ChatMessage("assistant", response)

\* a round ran two tools, the first call raised and the second returned, and
\* both results are in the user message that follows
C18_Witness ==
    \E i \in DOMAIN messages :
        /\ messages[i].role = "user"
        /\ Len(messages[i].content) = 2
        /\ OnlyToolResults(messages[i].content)
        /\ messages[i].content[1].is_error
        /\ ~messages[i].content[2].is_error

-----------------------------------------------------------------------------
(* Claims about calls that do not complete *)

\* a run that is over: at END, ended by an exception, or never started
RunOver(node) == node \in {END, RAISED, IDLE}

\* C19: no silent hang: a run that is not over can always take a step, also
\* when a tool call of the node it is in never completes (the call then
\* fails with a timeout error, which the node records, and the run goes on
\* to END).
C19_NoSilentHang ==
    /\ ~RunOver(current) => ENABLED HangNext
    /\ ~RunOver(gcurrent) => ENABLED HangNext

-----------------------------------------------------------------------------
(* Claims about concurrent runs *)

\* C20: instance isolation: every tool call of a run goes to the session
\* that run's own connect established, and that session is open; while a run
\* is between its connect and its disconnect, the client's session is the
\* one it established and no other run has closed it.
C20_InstanceIsolation ==
    /\ \A i \in DOMAIN toolLog : toolLog[i].session = toolLog[i].own /\ toolLog[i].open
    /\ \A r \in Runs :
          runs[r].pc = "running" =>
              /\ mcp_client.session = runs[r].own
              /\ connections[runs[r].own].session = "open"

-----------------------------------------------------------------------------
(* Claims about failures inside the style workflow's nodes *)

\* C21: when a node of the style workflow has raised (the run is over with
\* the node's exception), the failure is recorded in state.error.
C21_NodeFailureRecorded ==
    current = RAISED => Truthy(state.error)

\* C22: whenever a run of the style workflow has ended with error set,
\* validation_passed is false and final_style is still its initial value.
C22_ErrorRunHasNoStyle ==
    (current = END /\ Truthy(state.error))
    => (~state.validation_passed /\ state.final_style = EmptyDict)

-----------------------------------------------------------------------------
(* Claims about the GeoJSON workflow's runs *)

\* the nodes executed so far, in order
GeoNodeSeq == [i \in DOMAIN glog |-> glog[i].node]

GeoNoNodeRaised == \A i \in DOMAIN glog : ~glog[i].raised

\* the order of a whole run on data classify labelled data_type
GeoOrder(data_type) ==
    <<"classify", "assess_quality", "analyze_" \o data_type,
      "visualize", "recommend", "report">>

\* C23 as stated: a run in which no node raised has executed exactly seven
\* nodes when it is at END.
C23_SevenNodes ==
    (gcurrent = END /\ GeoNoNodeRaised) => Len(glog) = 7

\* C23: in a run in which no node raised, the nodes executed so far are the
\* first ones of classify, assess_quality, the analyze node of the data_type
\* classify set, visualize, recommend, report; the run is at END exactly when
\* all six have executed, and no node has executed twice.
C23_SixNodesInOrder ==
    (Len(glog) > 0 /\ GeoNoNodeRaised)
    => /\ glog[1].data_type \in {"points", "lines", "polygons", "mixed"}
       /\ Len(glog) <= 6
       /\ GeoNodeSeq = SubSeq(GeoOrder(glog[1].data_type), 1, Len(glog))
       /\ gcurrent = END <=> Len(glog) = 6
       /\ \A i, j \in DOMAIN glog : glog[i].node = glog[j].node => i = j

\* a run over polygons that got to END
C23_Witness ==
    /\ gcurrent = END
    /\ GeoNoNodeRaised
    /\ Len(glog) = 6
    /\ glog[3].node = "analyze_polygons"
    /\ gstate.data_type = "polygons"

\* the values create_visualization_node writes when it takes the tool call
\* for a success
VisualizationMade ==
    {"Visualization created", "https://api.mapbox.com/styles/v1/preview.html"}

\* C24: when visualize has just run with a tool call that failed, the node
\* returned, visualization_url is a record of the failure (non-empty, and not
\* one of the values of a success), and the run goes on to recommend.
C24_ToolFailureNotFatal ==
    (Len(glog) > 0 /\ glog[Len(glog)].node = "visualize" /\ glog[Len(glog)].failed)
    => /\ ~glog[Len(glog)].raised
       /\ gstate.visualization_url # ""
       /\ gstate.visualization_url \notin VisualizationMade
       /\ gcurrent = "recommend"

\* C29: every application of classify_data_node returns and leaves data_type
\* one of points, lines, polygons, mixed.
C29_ClassifyAlwaysLabels ==
    \A i \in DOMAIN glog :
        IsClassifyCall(glog[i])
        => /\ ~glog[i].raised
           /\ glog[i].data_type \in {"points", "lines", "polygons", "mixed"}

-----------------------------------------------------------------------------
(* Claims about the creation of a style *)

\* block is a json block that was found and parsed
IsParsedBlock(block) == block # NONE /\ IsJson(block)

InvokesCreate(tools) == \E i \in DOMAIN tools : tools[i] = "create_style_tool"

\* the strings the crew's create_style_tool returns when it stops before the
\* remote create_style_tool
CrewParseErrors(builder_result) ==
    {"Error: Could not parse style JSON from builder response. Response was:\n"
        \o builder_result,
     "Error creating style: Expecting property name enclosed in double quotes"
        \o "\n\nBuilder result was:\n" \o builder_result}

\* C25: in the create node and in the crew's create_style_tool alike, the
\* remote create_style_tool is invoked only second, after style_builder_tool,
\* and only when a json block was found in the builder's answer and parsed;
\* when there is no such block, create_style_tool is not invoked and the
\* failure is recorded: in error by the node, in the returned string by the tool.
C25_BuilderBeforeCreate ==
    /\ toolCalls.node = "create"
        => /\ InvokesCreate(toolCalls.tools)
                => /\ toolCalls.tools = <<"style_builder_tool", "create_style_tool">>
                   /\ IsParsedBlock(toolCalls.block)
           /\ ~IsParsedBlock(toolCalls.block)
                => /\ toolCalls.tools = <<"style_builder_tool">>
                   /\ Truthy(state.error)
    /\ crew.pc = "returned"
        => /\ InvokesCreate(crew.tools)
                => /\ crew.tools = <<"style_builder_tool", "create_style_tool">>
                   /\ IsParsedBlock(json_match(crew.builder_result))
           /\ ~IsParsedBlock(json_match(crew.builder_result))
                => /\ crew.tools = <<"style_builder_tool">>
                   /\ crew.output \in CrewParseErrors(crew.builder_result)

\* the crew's tool returned after the builder answered with a block that does
\* not parse, without invoking create_style_tool
C25_Witness ==
    /\ crew.pc = "returned"
    /\ crew.builder_result = T_BADBLOCK
    /\ crew.tools = <<"style_builder_tool">>

\* the step is an execution of create that returned after its try block failed
FailedCreateStep ==
    /\ current = "create"
    /\ Len(log') = Len(log) + 1
    /\ ~log'[Len(log')].raised
    /\ toolCalls'.node = "create"
    /\ toolCalls'.failed

\* C26: an execution of create whose try block fails (a tool step raises, or
\* no style json is found) sets error and leaves every other field of the
\* state as it was on entry.
C26_FailedCreateOnlySetsError ==
    [][FailedCreateStep
        => /\ Truthy(state'.error)
           /\ state' = [state EXCEPT !.error = state'.error]]_vars

\* the second create has failed: the id and the count of the first are kept
C26_Witness ==
    /\ Len(log) > 0 /\ IsCreate(Last) /\ ~Last.raised
    /\ toolCalls.node = "create" /\ toolCalls.failed
    /\ Truthy(state.error)
    /\ state.created_style_id = "style1"
    /\ state.iteration_count = 1

\* the step is an execution of create
CreateStep ==
    /\ current = "create"
    /\ Len(log') = Len(log) + 1

\* the create that ran last had create_style_tool hand it a style
CreatedStyle ==
    /\ toolCalls.node = "create"
    /\ InvokesCreate(toolCalls.tools)
    /\ ~toolCalls.failed

AtFinalize ==
    \/ current = "finalize"
    \/ Len(log) > 0 /\ Last.node = "finalize"

\* C28: when finalize executes with validation_passed true, final_style is
\* the style data the validate before it retrieved, and it retrieved it for
\* the current created_style_id; when finalize executes with validation_passed
\* false, final_style is still its initial value.
C28_FinalStyleIffValidated ==
    AtFinalize
    => IF state.validation_passed
       THEN /\ toolCalls.node = "validate"
            /\ ~toolCalls.failed
            /\ toolCalls.styleId = state.created_style_id
            /\ state.final_style = toolCalls.retrieved
       ELSE state.final_style = EmptyDict

\* finalize has run on the style that passed at the second attempt
C28_Witness ==
    /\ Len(log) > 0 /\ Last.node = "finalize" /\ ~Last.raised
    /\ state.validation_passed
    /\ state.final_style = [EmptyDict EXCEPT !.id = "style1"]
    /\ Visits("validate") = 2

\* the base styles create_style_node may ask style_builder_tool for
BaseStyles == {"streets-v12", "light-v11", "dark-v11", "outdoors-v12", "satellite-v9"}

\* C30: the base_style argument create_style_node passed to
\* style_builder_tool is one of the five base styles, and it is streets-v12
\* when the llm content, stripped and without mapbox/, is not one of them.
C30_BaseStyleIsValid ==
    toolCalls.node = "create"
    => /\ toolCalls.base_style \in BaseStyles
       /\ RemoveMapbox(Strip(toolCalls.content)) \notin BaseStyles
            => toolCalls.base_style = "streets-v12"

\* the llm answered with a sentence, and the builder was asked for streets-v12
C30_Witness ==
    /\ toolCalls.node = "create"
    /\ toolCalls.content = "I recommend mapbox/light-v11"
    /\ toolCalls.base_style = "streets-v12"
    /\ toolCalls.tools # <<>>

-----------------------------------------------------------------------------
(* Claims about the tool calls of the agent loop *)

\* the tool calls of the round that ran last
LastRoundRuns == SelectSeq(toolRuns, LAMBDA run : run.round = iterations)

\* a round has just run in which a session.call_tool raised
ToolCallRaised ==
    /\ chatPc \in {"loop", "after_loop", RAISED}
    /\ \E i \in DOMAIN LastRoundRuns : LastRoundRuns[i].raised

\* C31: when a session.call_tool of the round that ran last raised, the
\* exception did not leave chat_with_agent, every tool_use block of the
\* response was executed, the block of each call that raised has an is_error
\* tool_result in the user message appended, and the loop goes on to the next
\* inference round.
C31_ToolFailureIsolated ==
    ToolCallRaised
    => /\ chatPc # RAISED
       /\ [i \in DOMAIN LastRoundRuns |-> LastRoundRuns[i].id] = ToolUseIds(response)
       /\ \A i \in DOMAIN LastRoundRuns :
            LastRoundRuns[i].raised
            => /\ messages[Len(messages)].content[i].tool_use_id = LastRoundRuns[i].id
               /\ messages[Len(messages)].content[i].is_error
       /\ chatPc = "loop"

\* C32: once the request has returned, every tool call it made was made in
\* a round that an inference call followed, so that its result was in the
\* messages of that call.
C32_EveryResultSeen ==
    chatPc = "returned"
    => \A i \in DOMAIN toolRuns : toolRuns[i].round < iterations

\* msgs starts with a user message, alternates user and assistant, and ends
\* with a user message
Alternates(msgs) ==
    /\ Len(msgs) % 2 = 1
    /\ \A i \in DOMAIN msgs :
          msgs[i].role = IF i % 2 = 1 THEN "user" ELSE "assistant"

\* C33: while a request is processed, and so at every inference call,
\* messages starts with a user message, alternates user and assistant roles
\* and ends with a user message; a round whose response holds tool_use blocks
\* appends one assistant message and then one user message of tool results,
\* and no other step changes messages.
C33_MessagesAlternate ==
    /\ [](chatPc # IDLE => Alternates(messages))
    /\ [][/\ (iterations' = iterations + 1 /\ chatPc' # RAISED /\ RequestsTools')
              => messages' # messages
          /\ messages' # messages
              => /\ Len(messages') = Len(messages) + 2
                 /\ SubSeq(messages', 1, Len(messages)) = messages
                 /\ messages'[Len(messages) + 1] = ChatMessage("assistant", response')
                 /\ messages'[Len(messages) + 2].role = "user"
                 /\ OnlyToolResults(messages'[Len(messages) + 2].content)
                 /\ Len(messages'[Len(messages) + 2].content) > 0]_vars

\* the third inference call is about to be made, on a history of one exchange
\* and two rounds of tool use
C33_Witness ==
    /\ chatPc = "loop"
    /\ iterations = 2
    /\ Len(messages) = 7
    /\ messages[7].role = "user"
    /\ OnlyToolResults(messages[7].content)

\* the names of the tools offered to the backend
OfferedNames ==
    {filtered_tools(tools_result)[i] : i \in DOMAIN filtered_tools(tools_result)}

\* C34: every tool invoked through session.call_tool is one of the filtered
\* tools offered to the backend, and no tool offered or invoked has a name
\* holding style_builder.
C34_OnlyOfferedTools ==
    /\ \A name \in OfferedNames : ~NameExcluded(name)
    /\ \A i \in DOMAIN toolRuns :
          /\ toolRuns[i].name \in OfferedNames
          /\ ~NameExcluded(toolRuns[i].name)

-----------------------------------------------------------------------------
(* Claims about the tool bridge of the crew *)

\* the call met a failure: connect() failed, the transport raised, or a content
\* part is flagged isError
BridgeFailure ==
    \/ ~crew.connected
    \/ mcpResult.transport = "fail"
    \/ HasErrorPart(mcpResult)

\* the two shapes of an error string
BridgeErrorStrings ==
    {"Error calling " \o AdapterTool \o ": " \o TransportError}
    \cup {"Error calling " \o AdapterTool \o ": Tool returned error: " \o text :
            text \in Texts \cup {"Unknown error"}}
    \cup {"Tool execution error: " \o ConnectError}

\* C35: run_async_tool never raises, and a connect failure, a transport
\* exception and a content part flagged isError all come back as an error
\* string.
C35_BridgeNeverRaises ==
    (crew.pc = "returned" /\ crew.tools = <<AdapterTool>>)
        => /\ crew.output # RAISED
           /\ BridgeFailure => crew.output \in BridgeErrorStrings

\* the bridge returned after a connect failure
C35_Witness ==
    /\ crew.pc = "returned"
    /\ crew.tools = <<AdapterTool>>
    /\ ~crew.connected
    /\ crew.output = "Tool execution error: Server not found"

-----------------------------------------------------------------------------
(* Claims about extract_ui_resources *)

\* the item is of type resource, has a resource, and its uri starts with
\* ui://mapbox/
Qualifies(item) ==
    /\ item.type = "resource"
    /\ item.has_resource
    /\ item.uri \in {"ui://mapbox/preview/1", "ui://mapbox/preview/2"}

\* the place in the output of the qualifying item at place i of the input
EntryOf(content, i) ==
    Cardinality({j \in 1..i : Qualifies(content[j])})

\* C37: extract_ui_resources returns, in input order, exactly one entry for
\* each item of type resource with a resource whose uri starts with
\* ui://mapbox/; the uri of the entry is the text of the resource when that is
\* non-empty and the uri of the resource otherwise; nothing else gives an
\* entry.
C37_OneEntryPerUIResource ==
    chatPc = "extracted"
        => /\ Len(ui_resources)
                = Cardinality({i \in DOMAIN response : Qualifies(response[i])})
           /\ \A i \in DOMAIN response :
                Qualifies(response[i])
                    => ui_resources[EntryOf(response, i)].uri
                            = IF response[i].resource_text # ""
                                THEN response[i].resource_text
                              ELSE response[i].uri

\* two ui://mapbox/ resources, the one without a text first, gave two entries
\* in that order
C37_Witness ==
    /\ chatPc = "extracted"
    /\ response = <<I_UI_NOTEXT, I_UI>>
    /\ Len(ui_resources) = 2
    /\ ui_resources[1].uri = "ui://mapbox/preview/2"
    /\ ui_resources[2].uri = "https://api.mapbox.com/preview/1"

-----------------------------------------------------------------------------
(* Claims about the session lifecycle *)

\* the runner of r is over
RunnerOver(r) == runs[r].pc \in {"done", "failed", "reused"}

\* C36: a runner that opened the stdio transport has called disconnect() by
\* the time it is over, also when the session start or the workflow raised:
\* the transport it opened is closed.
C36_OpenedTransportIsClosed ==
    \A r \in Runs :
        (RunnerOver(r) /\ runs[r].own # 0)
            => connections[runs[r].own].transport = "closed"

\* C38: a call_tool after disconnect() is not sent on the closed session: every
\* request of the runs, one after the other, went to an open session.
C38_NoRequestOnClosedSession ==
    \A i \in DOMAIN toolLog : toolLog[i].open

=============================================================================
